---- MODULE Spec2Model ----
(***************************************************************************)
(* Model of the RAMEN port/topic engine (include/ramen.hpp): the intrusive *)
(* doubly-linked list node (detail::ListNode), the Event / Behavior ports  *)
(* built on it, and the bounded callable holder Function.  Nodes are       *)
(* identified by small integers; the two pointer fields prev_ and next_ of *)
(* every node are functions from node to node, with NULL standing for      *)
(* nullptr.  Holders are small integers too; a holder is a record of its   *)
(* three function pointers and the object in its buffer.                   *)
(***************************************************************************)
EXTENDS Integers, Sequences, FiniteSets, TLC

\* Number of port objects of the model.
NumNodes == 4
\* Number of Event objects (Pusher / Puller) among them; the others are
\* Behavior objects (Pushable / Pullable).
NumEvents == 2

NULL == 0
Node == 1..NumNodes
Events == 1..NumEvents
Behaviors == (NumEvents + 1)..NumNodes

\* The widest integer type of the values that are pushed and pulled, in bits.
MaxBits == 2

\* The number of Function holders.
NumHolders == 3

\* The width of the millisecond counter and of the slots' target times, in
\* bits (32 in the program).
ClockBits == 2

\* The width of the counters the expiry test is applied to on its own, in
\* bits (32 in the program).
WordBits == 4

\* The number of slots of the TimerActor.
MAX_CONCURRENT_TIMEOUTS == 3

Holder == 1..NumHolders

\* Longest sequence of link calls that is remembered since construction:
\* enough to link every Behavior once and two Events to each other.
MaxHist == Cardinality(Behaviors) + 1

VARIABLES
    alive,   \* alive[n]: the object n is constructed and not yet destroyed
    prev_,   \* prev_[n]: ListNode::prev_ of n
    next_,   \* next_[n]: ListNode::next_ of n
    trig,    \* the trigger() calls made by the last operation, in call order
    called,  \* the Behaviors whose stored callable the last operation invoked, in order
    out,     \* the value the last operation returned to its caller (NULL: none)
    hist,    \* the link calls made since construction, while nothing else changed a link
    op,      \* the last operation: <<name, this, that>>
    pre,     \* the links as they were before the last operation
    pc,      \* "idle", or where the loop of the running Event::operator() stands
    cur,     \* the loop pointer p of the running Event::operator()
    fn,      \* fn[h]: the Function holder h: its three pointers and its buffer
    flog,    \* the constructor and destructor calls on targets made by the last operation
    fpre,    \* the holders as they were before the last operation
    failed,  \* an assertion failed: the program is aborted
    latch,   \* the Latch: its types, its stored value, and what was pushed last
    lift,    \* the Lift: its stored value, and what its last trigger did
    timer,   \* the TimerActor: its array active_timeouts and last_error
    millis,  \* what millis() returns: the millisecond counter
    tlog,    \* the firings of expiry pushers made by the last update(), in order
    tpre,    \* the array active_timeouts as it was before the last operation
    led,     \* led[i]: the BlinkyLedActor i: its state, its interval and its output pin
    collector, \* the SerialCollectorActor: its buffer, pos, and the lines it has fired
    fin      \* the Finalizers: the actions that have run

fnVars == <<fn, flog, fpre, failed>>

timerVars == <<timer, millis, tlog, tpre>>

appVars == <<led, collector, fin>>

actorVars == <<latch, lift, timerVars, appVars>>

vars == <<alive, prev_, next_, trig, called, out, hist, op, pre, pc, cur, fnVars,
          actorVars>>

\* The link fields of all nodes, as one value the operations transform.
Links == [prev |-> prev_, next |-> next_]

NoLinks == [prev |-> [n \in Node |-> NULL], next |-> [n \in Node |-> NULL]]

\* Marks a history that is no longer a plain sequence of link calls.
Dirty == << <<NULL, NULL>> >>

----------------------------------------------------------------------------
(* Triggerable::key *)

\* Event::key() returns 0, Behavior::key() returns 1.
key_constant(n) == 1

key(n) == IF n \in Events THEN 0 ELSE 1

----------------------------------------------------------------------------
(* detail::ListNode *)

linked_prev_only(L, this) == L.prev[this] # NULL

next_skips_one(L, this) ==
    IF L.next[this] # NULL /\ L.next[L.next[this]] # NULL
    THEN L.next[L.next[this]]
    ELSE L.next[this]

\* next(): the next_ pointer.
next(L, this) == L.next[this]

\* linked(): prev_ or next_ is set.
linked(L, this) == (L.prev[this] # NULL) \/ (L.next[this] # NULL)

RECURSIVE walk_prev(_, _, _)
walk_prev(L, p, fuel) ==
    IF L.prev[p] # NULL /\ fuel > 0 THEN walk_prev(L, L.prev[p], fuel - 1) ELSE p

RECURSIVE walk_next(_, _, _)
walk_next(L, p, fuel) ==
    IF L.next[p] # NULL /\ fuel > 0 THEN walk_next(L, L.next[p], fuel - 1) ELSE p

\* head(): follow prev_ until it is null.  A list of the model has at most
\* NumNodes nodes, so the walk is cut after NumNodes steps.
head(L, this) == walk_prev(L, this, NumNodes)

\* tail(): follow next_ until it is null.
tail(L, this) == walk_next(L, this, NumNodes)

remove_keeps_next(L, this) ==
    LET L1 == IF L.prev[this] # NULL
              THEN [L EXCEPT !.next[L.prev[this]] = L.next[this]]
              ELSE L
        L2 == IF L1.next[this] # NULL
              THEN [L1 EXCEPT !.prev[L1.next[this]] = L1.prev[this]]
              ELSE L1
    IN  [L2 EXCEPT !.prev[this] = NULL]

remove_no_prev_patch(L, this) ==
    LET L1 == IF L.next[this] # NULL
              THEN [L EXCEPT !.prev[L.next[this]] = L.prev[this]]
              ELSE L
    IN  [L1 EXCEPT !.prev[this] = NULL, !.next[this] = NULL]

\* remove(): patch the neighbours around this, then clear both links.
remove(L, this) ==
    LET L1 == IF L.prev[this] # NULL
              THEN [L EXCEPT !.next[L.prev[this]] = L.next[this]]
              ELSE L
        L2 == IF L1.next[this] # NULL
              THEN [L1 EXCEPT !.prev[L1.next[this]] = L1.prev[this]]
              ELSE L1
    IN  [L2 EXCEPT !.prev[this] = NULL, !.next[this] = NULL]

merge_prepends(L, this, that) ==
    IF that # NULL /\ that # this
    THEN LET that_head     == head(L, that)
             this_head_ptr == head(L, this)
         IN  IF this_head_ptr # that_head
             THEN LET that_tail == tail(L, that)
                  IN  [L EXCEPT !.next[that_tail]     = this_head_ptr,
                                !.prev[this_head_ptr] = that_tail]
             ELSE L
    ELSE L

merge_no_same_list_check(L, this, that) ==
    IF that # NULL /\ that # this
    THEN LET that_head     == head(L, that)
             this_tail_ptr == tail(L, this)
         IN  [L EXCEPT !.next[this_tail_ptr] = that_head,
                       !.prev[that_head]     = this_tail_ptr]
    ELSE L

\* merge(that): link the tail of this list to the head of that list, unless
\* that is null, this, or already in the same list.
merge(L, this, that) ==
    IF that # NULL /\ that # this
    THEN LET that_head     == head(L, that)
             this_head_ptr == head(L, this)
         IN  IF this_head_ptr # that_head
             THEN LET this_tail_ptr == tail(L, this)
                  IN  [L EXCEPT !.next[this_tail_ptr] = that_head,
                                !.prev[that_head]     = this_tail_ptr]
             ELSE L
    ELSE L

\* The first loop of clusterize(): every node of the list, from the head on,
\* is removed and appended to the cluster its key selects.
RECURSIVE cluster_loop(_, _, _, _, _)
cluster_loop(L, p, clusters, key_func, fuel) ==
    IF p = NULL \/ fuel = 0
    THEN [links |-> L, clusters |-> clusters]
    ELSE LET current_node  == p
             p_next        == L.next[p]
             L1            == remove(L, current_node)
             cluster_index == key_func[current_node]
             c             == clusters[cluster_index]
         IN  IF c.first = NULL
             THEN cluster_loop(L1, p_next,
                      [clusters EXCEPT ![cluster_index] =
                           [first |-> current_node, second |-> current_node]],
                      key_func, fuel - 1)
             ELSE cluster_loop(
                      [L1 EXCEPT !.next[c.second]     = current_node,
                                 !.prev[current_node] = c.second],
                      p_next,
                      [clusters EXCEPT ![cluster_index].second = current_node],
                      key_func, fuel - 1)

\* The second loop of clusterize(): the non-empty clusters are linked one
\* after the other, in index order.
RECURSIVE cluster_join(_, _, _, _, _, _)
RECURSIVE cluster_join_stops_at_empty(_, _, _, _, _, _)
cluster_join_stops_at_empty(L, clusters, i, N_Clusters, new_global_head, new_global_tail) ==
    IF i = N_Clusters
    THEN L
    ELSE LET c == clusters[i]
         IN  IF c.first # NULL
             THEN IF new_global_head = NULL
                  THEN cluster_join_stops_at_empty(L, clusters, i + 1, N_Clusters,
                                                   c.first, c.second)
                  ELSE cluster_join_stops_at_empty(
                           [L EXCEPT !.next[new_global_tail] = c.first,
                                     !.prev[c.first]         = new_global_tail],
                           clusters, i + 1, N_Clusters, new_global_head, c.second)
             ELSE L

cluster_join(L, clusters, i, N_Clusters, new_global_head, new_global_tail) ==
    IF i = N_Clusters
    THEN L
    ELSE LET c == clusters[i]
         IN  IF c.first # NULL
             THEN IF new_global_head = NULL
                  THEN cluster_join(L, clusters, i + 1, N_Clusters, c.first, c.second)
                  ELSE cluster_join(
                           [L EXCEPT !.next[new_global_tail] = c.first,
                                     !.prev[c.first]         = new_global_tail],
                           clusters, i + 1, N_Clusters, new_global_head, c.second)
             ELSE cluster_join(L, clusters, i + 1, N_Clusters,
                               new_global_head, new_global_tail)

\* clusterize<N_Clusters>(key_func), called on node this; key_func[n] is the
\* cluster index the key function returns for node n.
clusterize(L, this, N_Clusters, key_func) ==
    LET current_list_head == head(L, this)
        empty == [i \in 0..(N_Clusters - 1) |-> [first |-> NULL, second |-> NULL]]
        r     == cluster_loop(L, current_list_head, empty, key_func, NumNodes)
    IN  cluster_join(r.links, r.clusters, 0, N_Clusters, NULL, NULL)

move_ctor_keeps_source(L, this, that) ==
    LET L1 == [L EXCEPT !.prev[this] = L.prev[that], !.next[this] = L.next[that]]
        L2 == IF L1.prev[this] # NULL
              THEN [L1 EXCEPT !.next[L1.prev[this]] = this] ELSE L1
    IN  IF L2.next[this] # NULL
        THEN [L2 EXCEPT !.prev[L2.next[this]] = this] ELSE L2

\* ListNode(ListNode&& that): this is a new node that takes over that's links.
move_ctor(L, this, that) ==
    LET L1 == [L EXCEPT !.prev[this] = L.prev[that], !.next[this] = L.next[that]]
        L2 == IF L1.prev[this] # NULL
              THEN [L1 EXCEPT !.next[L1.prev[this]] = this] ELSE L1
        L3 == IF L2.next[this] # NULL
              THEN [L2 EXCEPT !.prev[L2.next[this]] = this] ELSE L2
    IN  [L3 EXCEPT !.prev[that] = NULL, !.next[that] = NULL]

move_assign_no_remove(L, this, that) ==
    IF this # that THEN move_ctor(L, this, that) ELSE L

\* operator=(ListNode&& that): this leaves its list, then takes over that's links.
move_assign(L, this, that) ==
    IF this # that THEN move_ctor(remove(L, this), this, that) ELSE L

dtor_no_remove(L, this) == L

\* ~ListNode(): remove().
dtor(L, this) == remove(L, this)

----------------------------------------------------------------------------
(* Port *)

\* Port::operator bool: whether the port is linked.
port_bool(L, this) == linked(L, this)

----------------------------------------------------------------------------
(* Event *)

link_no_clusterize(L, this, that) == merge(L, this, that)

\* Event::operator>>(that): merge, then clusterize<2> by key() from the head.
link(L, this, that) ==
    LET L1 == merge(L, this, that)
    IN  clusterize(L1, head(L1, this), 2, [x \in Node |-> key(x)])

RECURSIVE event_trigger_walk(_, _, _)
event_trigger_walk(L, p, fuel) ==
    IF p = NULL \/ fuel = 0 THEN <<>> ELSE <<p>> \o event_trigger_walk(L, L.next[p], fuel - 1)

event_trigger_broadcasts(L, this) == event_trigger_walk(L, L.next[this], NumNodes)

\* Event::trigger(args): the body is empty. The result is the sequence of
\* nodes whose trigger() is called from it.
event_trigger(L, this) == <<>>

\* p->trigger(args...): the nodes whose trigger() is called from the trigger()
\* of p. A Behavior runs its callable, which is recorded apart.
trigger(L, p) == IF p \in Events THEN event_trigger(L, p) ELSE <<>>

\* The loop of Event::operator(): while (p) { p->trigger(args...); p = p->next(); }
RECURSIVE fire_loop(_, _, _)
fire_loop(L, p, fuel) ==
    IF p = NULL \/ fuel = 0
    THEN <<>>
    ELSE <<p>> \o trigger(L, p) \o fire_loop(L, L.next[p], fuel - 1)

RECURSIVE fire_loop_skip_last(_, _, _)
fire_loop_skip_last(L, p, fuel) ==
    IF p = NULL \/ L.next[p] = NULL \/ fuel = 0
    THEN <<>>
    ELSE <<p>> \o fire_loop_skip_last(L, L.next[p], fuel - 1)

fire_skip_last(L, this) == fire_loop_skip_last(L, L.next[this], NumNodes)

\* Event::operator()(args): trigger every node after this one, in list order.
\* The result is the sequence of nodes whose trigger() is called.
fire(L, this) == fire_loop(L, L.next[this], NumNodes)

----------------------------------------------------------------------------
(* Behavior *)

behavior_call_broadcasts(L, this) ==
    LET topic == fire_loop(L, head(L, this), NumNodes)
    IN  [trig   |-> SelectSeq(topic, LAMBDA x : x # this),
         called |-> SelectSeq(topic, LAMBDA x : x \in Behaviors)]

\* Behavior::operator()(args): fun_(args). The result is the trigger() calls
\* made on nodes and the stored callables invoked, each in call order.
behavior_call(L, this) == [trig |-> <<>>, called |-> <<this>>]

----------------------------------------------------------------------------
(* Pullable, Puller *)

\* T_param out{} for T_param = int.
DefaultValue == 0

\* The value the callable of the Pullable b writes into its out-parameter:
\* the first Pullable writes the constant 42, the others other constants.
PullValue(b) == 42 + (b - (NumEvents + 1))

RECURSIVE pull_first_writer_wins(_, _)
pull_first_writer_wins(triggered, value) ==
    IF triggered = <<>>
    THEN value
    ELSE IF Head(triggered) \in Behaviors
         THEN PullValue(Head(triggered))
         ELSE pull_first_writer_wins(Tail(triggered), value)

\* The out-parameter after the callables of the triggered nodes ran in order:
\* every Pullable overwrites it, an Event leaves it alone.
RECURSIVE pull(_, _)
pull(triggered, value) ==
    IF triggered = <<>>
    THEN value
    ELSE pull(Tail(triggered),
              IF Head(triggered) \in Behaviors THEN PullValue(Head(triggered)) ELSE value)

materialize_no_pull(L, this) == DefaultValue

\* Puller<T>::operator*(): T out{}; (*this)(out); return out.
materialize(L, this) == pull(fire(L, this), DefaultValue)

----------------------------------------------------------------------------
(* Function *)

\* The footprint of the holder h, in units of the smallest target: holders
\* come in pairs of equal footprint, so that moves between holders of one
\* type and widening moves both occur.
Foot(h) == (h + 1) \div 2

\* The target types: a target of type T has sizeof(T) = T.
Types == 1..Foot(NumHolders)

\* The state a target captures; its result depends on it.
Captures == BOOLEAN

\* What invoking a target of type T with captured state v returns.
target_call(T, v) == <<T, v>>

\* No object in the buffer fun_.
NoObj == [T |-> NULL, v |-> FALSE, moved |-> FALSE]

\* Function() noexcept = default: the three pointers are null.
EmptyFunction ==
    [alive |-> TRUE, call_ |-> NULL, dtor_ |-> NULL, move_ |-> NULL, obj |-> NoObj]

\* A holder that is not constructed, or was destroyed.
NoFunction == [EmptyFunction EXCEPT !.alive = FALSE]

\* One call of a constructor or destructor of a target: its kind, the holder
\* whose buffer it works on, the object, and what the buffer held before.
LifeEvent(kind, h, obj, over) == [kind |-> kind, at |-> h, obj |-> obj, over |-> over]

\* construct(fun): set the three pointers for the type T and construct the
\* target in the buffer. S is [fn, log]: the holders and the calls so far.
construct(S, this, T, v) ==
    LET target == [T |-> T, v |-> v, moved |-> FALSE]
    IN  [fn  |-> [S.fn EXCEPT ![this].call_ = T, ![this].dtor_ = T,
                              ![this].move_ = T, ![this].obj = target],
         log |-> Append(S.log, LifeEvent("ctor", this, target, S.fn[this].obj))]

\* destroy(): run the destructor on the buffer, null the three pointers.
destroy(S, this) ==
    [fn  |-> [S.fn EXCEPT ![this].call_ = NULL, ![this].dtor_ = NULL,
                          ![this].move_ = NULL, ![this].obj = NoObj],
     log |-> Append(S.log, LifeEvent("dtor", this, S.fn[this].obj, S.fn[this].obj))]

\* if (move_ != nullptr) { move_(fun_, that.fun_); that's pointers = nullptr }:
\* the target is move-constructed in this buffer from the one in that buffer,
\* which stays behind in the moved-from state.
take_target(S, this, that) ==
    IF S.fn[this].move_ # NULL
    THEN LET target == [T |-> S.fn[this].move_, v |-> S.fn[that].obj.v, moved |-> FALSE]
         IN  [fn  |-> [S.fn EXCEPT ![this].obj = target,
                                   ![that].obj.moved = TRUE,
                                   ![that].call_ = NULL, ![that].dtor_ = NULL,
                                   ![that].move_ = NULL],
              log |-> Append(S.log, LifeEvent("move", this, target, S.fn[this].obj))]
    ELSE S

\* The pointers of this are set to those of that.
copy_pointers(S, this, that) ==
    [S EXCEPT !.fn[this].call_ = S.fn[that].call_,
              !.fn[this].dtor_ = S.fn[that].dtor_,
              !.fn[this].move_ = S.fn[that].move_]

function_move_ctor_keeps_source(S, this, that) ==
    LET S1 == copy_pointers([S EXCEPT !.fn[this] = EmptyFunction], this, that)
    IN  IF S1.fn[this].move_ # NULL
        THEN [S1 EXCEPT !.fn[this].obj = S.fn[that].obj]
        ELSE S1

\* Function(Function&& that), also from a holder of smaller footprint.
function_move_ctor(S, this, that) ==
    take_target(copy_pointers([S EXCEPT !.fn[this] = EmptyFunction], this, that), this, that)

assign_no_destroy(S, this, that) ==
    take_target(copy_pointers(S, this, that), this, that)

\* assign(that): destroy the target held, then take the one of that.
assign(S, this, that) ==
    LET S1 == IF S.fn[this].dtor_ # NULL THEN destroy(S, this) ELSE S
    IN  take_target(copy_pointers(S1, this, that), this, that)

\* operator=(Function&& that): assign, unless that is this; the overload for
\* a holder of another footprint has no such test and needs none.
function_move_assign(S, this, that) ==
    IF this # that THEN assign(S, this, that) ELSE S

\* operator=(F&& fun): destroy the target held, then construct the new one.
function_assign(S, this, T, v) ==
    construct(IF S.fn[this].dtor_ # NULL THEN destroy(S, this) ELSE S, this, T, v)

\* operator bool: call_ != nullptr.
function_bool(f) == f.call_ # NULL

function_call_unchecked(f) ==
    [failed |-> FALSE, result |-> target_call(f.call_, f.obj.v)]

\* operator()(args): the assertion call_ != nullptr, then call_(fun_, args),
\* which invokes the object in the buffer as a target of the type of call_.
function_call(f) ==
    IF f.call_ # NULL
    THEN [failed |-> FALSE, result |-> target_call(f.call_, f.obj.v)]
    ELSE [failed |-> TRUE, result |-> NULL]

\* ~Function(): destroy the target held, if any; the holder is gone.
function_dtor(S, this) ==
    LET S1 == IF S.fn[this].dtor_ # NULL THEN destroy(S, this) ELSE S
    IN  [S1 EXCEPT !.fn[this] = NoFunction]

----------------------------------------------------------------------------
(* Latch *)

\* The widths, in bits, of the unsigned integer types a Latch or a Lift is
\* instantiated with.
Widths == 1..MaxBits

\* The values of the unsigned integer type of w bits.
TypeValues(w) == 0..(2^w - 1)

\* static_cast to the unsigned integer type of w bits.
static_cast(w, v) == v % (2^w)

\* No Latch is constructed.
NoLatch == [exists |-> FALSE, In_type |-> 1, T_val |-> 1, Out_type |-> 1,
            value |-> DefaultValue, was |-> DefaultValue, pushed |-> <<>>]

\* Latch<T_val, In_type, Out_type>: T_val value{}. The fields was and pushed
\* remember the stored value before the last operation and the value of the
\* last push.
latch_ctor(In_type, T_val, Out_type) ==
    [NoLatch EXCEPT !.exists = TRUE, !.In_type = In_type, !.T_val = T_val,
                    !.Out_type = Out_type]

latch_in_keeps_value(l, val) == [l EXCEPT !.was = l.value, !.pushed = <<val>>]

\* Latch::in: value = static_cast<T_val>(val).
latch_in(l, val) ==
    [l EXCEPT !.value = static_cast(l.T_val, val), !.was = l.value, !.pushed = <<val>>]

\* Latch::out: val = static_cast<Out_type>(value).
latch_out(l) == static_cast(l.Out_type, l.value)

----------------------------------------------------------------------------
(* Lift *)

\* The ports Lift::in (a Puller) and Lift::out (a Pusher).
lift_in == 1
lift_out == 2

\* The Pullables that can be linked to Lift::in and the Pushables that can be
\* linked to Lift::out: the signatures of the two topics differ.
LiftSources == {b \in Behaviors : b = NumEvents + 1}
LiftSinks == Behaviors \ LiftSources

\* No Lift is constructed.
NoLift == [exists |-> FALSE, T_val |-> 1, Out_type |-> 1,
           value |-> DefaultValue, was |-> DefaultValue,
           pulled |-> FALSE, pushed |-> <<>>, at_push |-> <<>>]

\* Lift<T_val, Out_type>: T_val value{}. The other fields remember the last
\* call of trigger: the stored value before it, whether in(value) was
\* called, the value out(...) was called with, and the stored value at the
\* moment of that call.
lift_ctor(T_val, Out_type) ==
    [NoLift EXCEPT !.exists = TRUE, !.T_val = T_val, !.Out_type = Out_type]

\* in(value): the Pullables of the topic write into the stored value.
lift_pull(L, l) ==
    [l EXCEPT !.value = static_cast(l.T_val, pull(fire(L, lift_in), l.value)),
              !.pulled = TRUE]

\* out(static_cast<Out_type>(value)).
lift_push(L, l) ==
    [l EXCEPT !.pushed = <<static_cast(l.Out_type, l.value)>>, !.at_push = <<l.value>>]

lift_trigger_one_guard(L, l) ==
    LET l0 == [l EXCEPT !.was = l.value, !.pulled = FALSE, !.pushed = <<>>, !.at_push = <<>>]
    IN  IF port_bool(L, lift_in) /\ port_bool(L, lift_out)
        THEN lift_push(L, lift_pull(L, l0))
        ELSE l0

\* Lift::trigger: if (in) in(value); if (out) out(static_cast<Out_type>(value)).
lift_trigger(L, l) ==
    LET l0 == [l EXCEPT !.was = l.value, !.pulled = FALSE, !.pushed = <<>>, !.at_push = <<>>]
        l1 == IF port_bool(L, lift_in) THEN lift_pull(L, l0) ELSE l0
    IN  IF port_bool(L, lift_out) THEN lift_push(L, l1) ELSE l1

----------------------------------------------------------------------------
(* TimerActor (include/actor_timer.hpp) *)

\* The values of the unsigned millisecond counter millis(), of ClockBits bits.
Millis == 0..(2^ClockBits - 1)

\* Arithmetic in the unsigned type of the counter wraps around.
uint32_t(v) == v % (2^ClockBits)

\* The cast of a counter value to the signed type of the same width.
int32_t(v) == IF v < 2^(ClockBits - 1) THEN v ELSE v - 2^ClockBits

\* The indexes of the array active_timeouts.
Slots == 0..(MAX_CONCURRENT_TIMEOUTS - 1)

\* The intervals a request asks for: none, or one millisecond.
Intervals == {0, 1}

\* The expiry pushers of two clients; a request may also carry nullptr.
Pushers == {e \in Events : e <= 2}

\* The Behavior of the client that the expiry pusher p is wired to.
SinkOf(p) == NumEvents + p

\* The client of the first expiry pusher subscribes to it; the other pusher
\* has no subscriber.
Subscriber == CHOOSE p \in Pushers : \A q \in Pushers : p <= q

\* The value of the user_data pointer of a request. BaseEvent leaves the
\* member uninitialized and no client sets it: it is whatever the storage of
\* the event held, and the actor only copies it. One value other than
\* nullptr stands for it.
UserData == {1}

TimerErrors ==
    {"NONE", "NULL_TARGET_PUSHER", "NO_FREE_SLOTS", "TARGET_PUSHER_NOT_FOUND",
     "INVALID_INTERVAL"}

\* ActiveTimeout with its default member initializers.
NoTimeout ==
    [target_millis |-> 0, on_expired_pusher |-> NULL, is_active |-> FALSE,
     is_periodic |-> FALSE, period_ms |-> 0, user_data_for_tick |-> NULL]

\* ActiveTimeout::clear()
clear(t) ==
    [t EXCEPT !.target_millis = 0, !.on_expired_pusher = NULL, !.is_active = FALSE,
              !.is_periodic = FALSE, !.period_ms = 0, !.user_data_for_tick = NULL]

\* ActiveTimeout::setup_periodic: udata is not stored. ms is what millis()
\* returns.
setup_periodic(t, ms, interval_ms, pusher, udata) ==
    [t EXCEPT !.target_millis = uint32_t(ms + interval_ms),
              !.on_expired_pusher = pusher, !.is_active = TRUE,
              !.is_periodic = TRUE, !.period_ms = interval_ms]

\* ActiveTimeout::setup_oneshot
setup_oneshot(t, ms, interval_ms, pusher, udata) ==
    [t EXCEPT !.target_millis = uint32_t(ms + interval_ms),
              !.on_expired_pusher = pusher, !.is_active = TRUE,
              !.is_periodic = FALSE, !.period_ms = 0,
              !.user_data_for_tick = udata]

restart_periodic_from_target(t, ms) ==
    IF t.is_periodic /\ t.period_ms > 0
    THEN [t EXCEPT !.target_millis = uint32_t(t.target_millis + t.period_ms)]
    ELSE t

\* ActiveTimeout::restart_periodic
restart_periodic(t, ms) ==
    IF t.is_periodic /\ t.period_ms > 0
    THEN [t EXCEPT !.target_millis = uint32_t(ms + t.period_ms)]
    ELSE t

\* TimerActor after construction.
NewTimerActor ==
    [active_timeouts |-> [i \in Slots |-> NoTimeout], last_error |-> "NONE"]

\* ArmTimerEvt; user_data is the member of BaseEvent, which the constructor
\* leaves uninitialized.
ArmTimerEvt(interval, pusher, periodic, udata) ==
    [interval_ms |-> interval, target_pusher |-> pusher, is_periodic |-> periodic,
     user_data |-> udata]

\* The slot the loop of arm_timer_request_in finds: the first one that is
\* not active.
first_free(A) ==
    CHOOSE i \in Slots :
        /\ ~A.active_timeouts[i].is_active
        /\ \A j \in Slots : j < i => A.active_timeouts[j].is_active

arm_takes_last_free(A, ms, evt) ==
    LET free == {i \in Slots : ~A.active_timeouts[i].is_active}
        A0   == [A EXCEPT !.last_error = "NONE"]
    IN  IF evt.target_pusher = NULL THEN [A0 EXCEPT !.last_error = "NULL_TARGET_PUSHER"]
        ELSE IF evt.interval_ms = 0 THEN [A0 EXCEPT !.last_error = "INVALID_INTERVAL"]
        ELSE IF free = {} THEN [A0 EXCEPT !.last_error = "NO_FREE_SLOTS"]
        ELSE LET i == CHOOSE k \in free : \A j \in free : j <= k
                 t == A0.active_timeouts[i]
             IN  [A0 EXCEPT !.active_timeouts[i] =
                     IF evt.is_periodic
                     THEN setup_periodic(t, ms, evt.interval_ms, evt.target_pusher, evt.user_data)
                     ELSE setup_oneshot(t, ms, evt.interval_ms, evt.target_pusher, evt.user_data)]

\* TimerActor::arm_timer_request_in, the callable of the Pushable.
arm_timer_request_in(A, ms, evt) ==
    LET A0 == [A EXCEPT !.last_error = "NONE"]
    IN  IF evt.target_pusher = NULL THEN [A0 EXCEPT !.last_error = "NULL_TARGET_PUSHER"]
        ELSE IF evt.interval_ms = 0 THEN [A0 EXCEPT !.last_error = "INVALID_INTERVAL"]
        ELSE IF \A i \in Slots : A0.active_timeouts[i].is_active
             THEN [A0 EXCEPT !.last_error = "NO_FREE_SLOTS"]
        ELSE LET i == first_free(A0)
                 t == A0.active_timeouts[i]
             IN  [A0 EXCEPT !.active_timeouts[i] =
                     IF evt.is_periodic
                     THEN setup_periodic(t, ms, evt.interval_ms, evt.target_pusher, evt.user_data)
                     ELSE setup_oneshot(t, ms, evt.interval_ms, evt.target_pusher, evt.user_data)]

\* The slots the loop of disarm_timer_request_in clears.
matching(A, pusher) ==
    {i \in Slots : /\ A.active_timeouts[i].is_active
                   /\ A.active_timeouts[i].on_expired_pusher = pusher}

disarm_first_match_only(A, pusher) ==
    LET A0 == [A EXCEPT !.last_error = "NONE"]
        m  == matching(A0, pusher)
    IN  IF pusher = NULL THEN [A0 EXCEPT !.last_error = "NULL_TARGET_PUSHER"]
        ELSE IF m = {} THEN [A0 EXCEPT !.last_error = "TARGET_PUSHER_NOT_FOUND"]
        ELSE LET i == CHOOSE k \in m : \A j \in m : k <= j
             IN  [A0 EXCEPT !.active_timeouts[i] = clear(A0.active_timeouts[i])]

\* TimerActor::disarm_timer_request_in, the callable of the Pushable, for a
\* DisarmTimerEvt with the given target_pusher.
disarm_timer_request_in(A, pusher) ==
    LET A0 == [A EXCEPT !.last_error = "NONE"]
        m  == matching(A0, pusher)
    IN  IF pusher = NULL THEN [A0 EXCEPT !.last_error = "NULL_TARGET_PUSHER"]
        ELSE IF m = {} THEN [A0 EXCEPT !.last_error = "TARGET_PUSHER_NOT_FOUND"]
        ELSE [A0 EXCEPT !.active_timeouts =
                 [i \in Slots |-> IF i \in m THEN clear(A0.active_timeouts[i])
                                  ELSE A0.active_timeouts[i]]]

expired_when_equal_only(ms, target, w) == ms = target

\* (int32_t)(now - target_millis) >= 0, over counters of w bits: the
\* difference wraps around in the unsigned type and is then read as signed.
expired_at(ms, target, w) ==
    LET diff == (ms - target) % (2^w)
    IN  (IF diff < 2^(w - 1) THEN diff ELSE diff - 2^w) >= 0

\* (int32_t)(now - target_millis) >= 0
expired(ms, target) == expired_at(ms, target, ClockBits)

\* target_millis = millis() + interval_ms, over counters of w bits
target_after(ms, interval_ms, w) == (ms + interval_ms) % (2^w)

\* One firing of an expiry pusher by update(): the slot, the pusher, the
\* user_data of the TickEvent, the nodes the firing triggers, and the slot
\* as it is at that moment.
Firing(i, t, L) ==
    [slot |-> i, pusher |-> t.on_expired_pusher, user_data |-> t.user_data_for_tick,
     triggered |-> fire(L, t.on_expired_pusher), at_fire |-> t]

\* The body of the loop of update() for the slot i. S is [actor, log]: the
\* actor and the firings so far; ms is the value of now, read once.
update_slot(S, L, ms, i) ==
    LET t == S.actor.active_timeouts[i]
    IN  IF t.is_active /\ expired(ms, t.target_millis)
        THEN [actor |-> [S.actor EXCEPT !.active_timeouts[i] =
                            IF t.is_periodic THEN restart_periodic(t, ms) ELSE clear(t)],
              log   |-> IF t.on_expired_pusher # NULL /\ port_bool(L, t.on_expired_pusher)
                        THEN Append(S.log, Firing(i, t, L))
                        ELSE S.log]
        ELSE S

RECURSIVE update_loop(_, _, _, _)
update_loop(S, L, ms, i) ==
    IF i = MAX_CONCURRENT_TIMEOUTS THEN S
    ELSE update_loop(update_slot(S, L, ms, i), L, ms, i + 1)

\* TimerActor::update(): now = millis(), then the loop over the slots. The
\* callables the firings trigger leave the actor and the counter alone.
update(A, L, ms) == update_loop([actor |-> A, log |-> <<>>], L, ms, 0)

----------------------------------------------------------------------------
(* BlinkyLedActor (include/actor_led.hpp), wired as in src/main.cpp *)

\* led1, led2, led3.
NumLeds == 3

Leds == 1..NumLeds

\* The largest interval an interval command is accepted with, in
\* milliseconds (60000 in the program).
MaxIntervalMs == 1

\* The interval the constructor of an LED is called with: led2 blinks at half
\* the rate of led1 and led3.
InitialIntervalMs(i) == IF i = 2 THEN 2 ELSE 1

\* &timeout_event_relay_out and &event_handler_in of the LED i: ports other
\* than the nodes of the engine's own model.
RelayOf(i) == NumNodes + i
HandlerOf(i) == NumNodes + NumLeds + i

\* The LED whose event_handler_in is the node n.
LedOfHandler(n) == n - NumNodes - NumLeds

\* timeout_event_relay_out >> event_handler_in in the constructor of each
\* LED: a topic of its own, the pusher first, the handler after it.
RelayLinks ==
    LET relays   == {RelayOf(i) : i \in Leds}
        handlers == {HandlerOf(i) : i \in Leds}
    IN  [prev |-> [n \in relays \cup handlers |->
                      IF n \in handlers THEN n - NumLeds ELSE NULL],
         next |-> [n \in relays \cup handlers |->
                      IF n \in relays THEN n + NumLeds ELSE NULL]]

\* BlinkyLedActor(led_pin, interval_ms_initial): the state machine starts in
\* stopped, and the constructor of the machine turns the LED off.
NewLed(i) ==
    [state |-> "stopped", blink_interval_ms |-> InitialIntervalMs(i), pin |-> "LOW"]

\* The events of the state machine.
start_blinking == [name |-> "start_blinking", new_interval_ms |-> 0]
stop_blinking == [name |-> "stop_blinking", new_interval_ms |-> 0]
periodic_timeout == [name |-> "periodic_timeout", new_interval_ms |-> 0]
change_interval_request(ms) == [name |-> "change_interval_request", new_interval_ms |-> ms]

\* The operations of an LED work on S = [led, timer]: the LEDs and the
\* TimerActor their request pushers are linked to. arm_timer_request_out
\* and disarm_timer_request_out of every LED share the topic of the one
\* Pushable of the actor, which is triggered once by a firing.

request_oneshot_timer(S, i, ms) ==
    IF S.led[i].blink_interval_ms > 0
    THEN [S EXCEPT !.timer =
             arm_timer_request_in(S.timer, ms,
                 ArmTimerEvt(S.led[i].blink_interval_ms, RelayOf(i), FALSE,
                             CHOOSE u \in UserData : TRUE))]
    ELSE S

\* request_periodic_timer(): both port pointers are set by the constructor.
request_periodic_timer(S, i, ms) ==
    IF S.led[i].blink_interval_ms > 0
    THEN [S EXCEPT !.timer =
             arm_timer_request_in(S.timer, ms,
                 ArmTimerEvt(S.led[i].blink_interval_ms, RelayOf(i), TRUE,
                             CHOOSE u \in UserData : TRUE))]
    ELSE S

\* disarm_periodic_timer()
disarm_periodic_timer(S, i) ==
    [S EXCEPT !.timer = disarm_timer_request_in(S.timer, RelayOf(i))]

update_interval_and_arm_again(S, i, ms, evt) ==
    request_periodic_timer([S EXCEPT !.led[i].blink_interval_ms = evt.new_interval_ms], i, ms)

\* update_interval_and_rearm_action
update_interval_and_rearm_action(S, i, ms, evt) ==
    LET S1 == [S EXCEPT !.led[i].blink_interval_ms = evt.new_interval_ms]
        S2 == disarm_periodic_timer(S1, i)
    IN  IF S2.led[i].blink_interval_ms > 0 THEN request_periodic_timer(S2, i, ms) ELSE S2

turn_off_and_stop_leaves_led_on(S, i) == disarm_periodic_timer(S, i)

\* turn_off_and_stop_action
turn_off_and_stop_action(S, i) ==
    disarm_periodic_timer([S EXCEPT !.led[i].pin = "LOW"], i)

event_handler_in_any_type(S, i, ms, type) ==
    IF S.led[i].state = "led_off"
    THEN [S EXCEPT !.led[i].pin = "HIGH", !.led[i].state = "led_on"]
    ELSE IF S.led[i].state = "led_on"
    THEN [S EXCEPT !.led[i].pin = "LOW", !.led[i].state = "led_off"]
    ELSE S

\* sm.process_event(evt) on the transition table of periodic_blinky_fsm: the
\* action of the transition for the current state and the event runs, then
\* the state changes; an event with no transition from the current state is
\* dropped.
process_event(S, i, ms, evt) ==
    LET state == S.led[i].state
        to(S1, target) == [S1 EXCEPT !.led[i].state = target]
    IN  CASE state = "stopped" /\ evt.name = "start_blinking" ->
                to(request_periodic_timer(S, i, ms), "led_off")
          [] state = "stopped" /\ evt.name = "change_interval_request" ->
                to([S EXCEPT !.led[i].blink_interval_ms = evt.new_interval_ms], "stopped")
          [] state = "led_off" /\ evt.name = "periodic_timeout" ->
                to([S EXCEPT !.led[i].pin = "HIGH"], "led_on")
          [] state = "led_on" /\ evt.name = "periodic_timeout" ->
                to([S EXCEPT !.led[i].pin = "LOW"], "led_off")
          [] state = "led_off" /\ evt.name = "stop_blinking" ->
                to(disarm_periodic_timer(S, i), "stopped")
          [] state = "led_on" /\ evt.name = "stop_blinking" ->
                to(turn_off_and_stop_action(S, i), "stopped")
          [] state = "led_off" /\ evt.name = "change_interval_request" ->
                to(update_interval_and_rearm_action(S, i, ms, evt), "led_off")
          [] state = "led_on" /\ evt.name = "change_interval_request" ->
                to(update_interval_and_rearm_action(S, i, ms, evt), "led_on")
          [] OTHER -> S

\* AppEventType
AppEventTypes == {"EV_UNKNOWN", "EV_TIMEOUT", "EV_ARM_TIMER", "EV_DISARM_TIMER"}

\* The callable of event_handler_in: switch (event.type).
event_handler_in(S, i, ms, type) ==
    IF type = "EV_TIMEOUT" THEN process_event(S, i, ms, periodic_timeout) ELSE S

\* The handlers the firings of one update() trigger, in call order; every
\* firing carries a TickEvent, whose type is EV_TIMEOUT.
RECURSIVE deliver(_, _, _)
deliver(S, ms, nodes) ==
    IF nodes = <<>> THEN S
    ELSE deliver(event_handler_in(S, LedOfHandler(Head(nodes)), ms, "EV_TIMEOUT"),
                 ms, Tail(nodes))

\* parse_interval_command: the range test on the parsed number.
interval_accepted(parsed_interval) ==
    ~(parsed_interval < 1 \/ parsed_interval > MaxIntervalMs)

\* LedCommandEvent
LedCommandTypes == {"START", "STOP", "SET_INTERVAL"}

\* LedExecutorActor::command_in: switch (evt.type) on the LED evt.led_id.
command_in(S, i, ms, type, interval_ms) ==
    CASE type = "START" -> process_event(S, i, ms, start_blinking)
      [] type = "STOP" -> process_event(S, i, ms, stop_blinking)
      [] type = "SET_INTERVAL" -> process_event(S, i, ms, change_interval_request(interval_ms))

\* setup(): the wiring, then led1.start(); led2.start(); led3.start().
RECURSIVE start_all(_, _, _)
start_all(S, ms, i) ==
    IF i > NumLeds THEN S ELSE start_all(process_event(S, i, ms, start_blinking), ms, i + 1)

\* The LEDs after construction.
NewLeds == [i \in Leds |-> NewLed(i)]

----------------------------------------------------------------------------
(* SerialCollectorActor (include/actor_serial_commander.hpp) *)

\* MAX_CMD_LENGTH, the size of the buffer of the collector, scaled down.
MAX_CMD_LENGTH == 4

\* The size of CommandLineEvent::command_line, the same number in the source.
COMMAND_LINE_SIZE == MAX_CMD_LENGTH

\* '\0'
NUL == 0

\* '\n' and '\r', as the uint8_t values char_in compares.
Terminators == {10, 13}

\* The characters of the input: the two terminators and two letters.
Chars == Terminators \cup {97, 98}

\* buffer[i] = v. A write outside the array is left out of the array and
\* shows in the indices the call reports as written.
store(buffer, i, v) == IF i \in DOMAIN buffer THEN [buffer EXCEPT ![i] = v] ELSE buffer

\* The first n bytes of the buffer, as memcpy copies them.
bytes(buffer, n) ==
    [k \in 1..n |-> IF k - 1 \in DOMAIN buffer THEN buffer[k - 1] ELSE NUL]

\* The collector after construction: commander is a global object, so the
\* buffer starts zeroed. Besides buffer and pos, the record keeps what the
\* last call of char_in did: the CommandLineEvents it fired through
\* line_out (the bytes copied into command_line, and length), the indices
\* of buffer it wrote and the count of bytes it copied; and typed, the
\* characters received since pos was last set to 0.
NewCollector ==
    [buffer |-> [k \in 0..(MAX_CMD_LENGTH - 1) |-> NUL], pos |-> 0,
     fired |-> <<>>, wrote |-> {}, copied |-> 0, typed |-> <<>>]

char_in_fills_buffer(C, c) ==
    LET Q == [C EXCEPT !.fired = <<>>, !.wrote = {}, !.copied = 0]
    IN  IF c \in Terminators
        THEN IF C.pos > 0
             THEN LET terminated == store(C.buffer, C.pos, NUL)
                  IN  [Q EXCEPT !.buffer = terminated, !.wrote = {C.pos},
                                !.copied = C.pos + 1,
                                !.fired = <<[command_line |-> bytes(terminated, C.pos + 1),
                                             length |-> C.pos]>>,
                                !.pos = 0]
             ELSE Q
        ELSE IF C.pos < MAX_CMD_LENGTH
        THEN [Q EXCEPT !.buffer = store(C.buffer, C.pos, c), !.wrote = {C.pos},
                       !.pos = C.pos + 1]
        ELSE [Q EXCEPT !.pos = 0]

char_in_fires_on_empty(C, c) ==
    LET Q == [C EXCEPT !.fired = <<>>, !.wrote = {}, !.copied = 0]
    IN  IF c \in Terminators
        THEN LET terminated == store(C.buffer, C.pos, NUL)
             IN  [Q EXCEPT !.buffer = terminated, !.wrote = {C.pos},
                           !.copied = C.pos + 1,
                           !.fired = <<[command_line |-> bytes(terminated, C.pos + 1),
                                        length |-> C.pos]>>,
                           !.pos = 0]
        ELSE IF C.pos < MAX_CMD_LENGTH - 1
        THEN [Q EXCEPT !.buffer = store(C.buffer, C.pos, c), !.wrote = {C.pos},
                       !.pos = C.pos + 1]
        ELSE [Q EXCEPT !.pos = 0]

\* The callable of SerialCollectorActor::char_in for the character c. The
\* callables linked to line_out do not push characters into the collector.
char_in(C, c) ==
    LET Q == [C EXCEPT !.fired = <<>>, !.wrote = {}, !.copied = 0]
    IN  IF c \in Terminators
        THEN IF C.pos > 0
             THEN LET terminated == store(C.buffer, C.pos, NUL)
                  IN  [Q EXCEPT !.buffer = terminated, !.wrote = {C.pos},
                                !.copied = C.pos + 1,
                                !.fired = <<[command_line |-> bytes(terminated, C.pos + 1),
                                             length |-> C.pos]>>,
                                !.pos = 0]
             ELSE Q
        ELSE IF C.pos < MAX_CMD_LENGTH - 1
        THEN [Q EXCEPT !.buffer = store(C.buffer, C.pos, c), !.wrote = {C.pos},
                       !.pos = C.pos + 1]
        ELSE [Q EXCEPT !.pos = 0]

----------------------------------------------------------------------------
(* Finalizer *)

\* The target of the lambda []{}: it captures nothing and does nothing.
NoOp == target_call(1, FALSE)

\* The actions of the user: lambdas of one type that differ in what they
\* capture.
UserActions == {target_call(Foot(NumHolders), v) : v \in Captures}

\* The Finalizers after construction of the program: none exists, no action
\* was made, run or disarmed. act_[h] is the member act_ of the Finalizer h,
\* ran[a] counts the runs of the action a, called lists the targets the last
\* operation invoked, disarmed holds the actions whose owner was disarmed.
NoFinalizers ==
    [act_ |-> [h \in Holder |-> NoFunction], ran |-> [a \in UserActions |-> 0],
     called |-> <<>>, made |-> {}, disarmed |-> {}]

\* The target act_ of the Finalizer h would invoke: <<>> if there is none.
held(F, h) ==
    IF F.act_[h].alive /\ function_bool(F.act_[h])
    THEN function_call(F.act_[h]).result
    ELSE <<>>

\* An operation of Function applied to the members act_.
on_act(F, S) == [F EXCEPT !.act_ = S.fn]

\* The members act_, as the operations of Function take them.
acts(F) == [fn |-> F.act_, log |-> <<>>]

\* if (act_) act_();
run_action(F, this) ==
    IF function_bool(F.act_[this])
    THEN LET a == function_call(F.act_[this]).result
         IN  [F EXCEPT !.called = Append(@, a),
                       !.ran = [b \in UserActions |-> IF b = a THEN @[b] + 1 ELSE @[b]]]
    ELSE F

\* Finalizer(F&& action): act_(std::forward<F>(action))
finalizer_ctor(F, this, a) ==
    on_act(F, construct([fn |-> [F.act_ EXCEPT ![this] = EmptyFunction], log |-> <<>>],
                        this, a[1], a[2]))

\* Finalizer(): Finalizer([] {})
finalizer_default(F, this) == finalizer_ctor(F, this, NoOp)

\* disarm(): act_ = []{}
disarm(F, this) == on_act(F, function_assign(acts(F), this, NoOp[1], NoOp[2]))

\* Finalizer(Finalizer&& that): act_(std::move(that.act_)), then
\* that.act_ = []{}
finalizer_move_ctor(F, this, that) ==
    disarm(on_act(F, function_move_ctor(acts(F), this, that)), that)

finalizer_move_assign_drops_action(F, this, that) ==
    IF this # that
    THEN disarm(on_act(F, function_move_assign(acts(F), this, that)), that)
    ELSE F

\* operator=(Finalizer&& that)
finalizer_move_assign(F, this, that) ==
    IF this # that
    THEN LET F1 == run_action(F, this)
         IN  disarm(on_act(F1, function_move_assign(acts(F1), this, that)), that)
    ELSE F

\* ~Finalizer(): if (act_) act_(); then the member act_ is destroyed.
finalizer_dtor(F, this) ==
    LET F1 == run_action(F, this)
    IN  on_act(F1, function_dtor(acts(F1), this))

----------------------------------------------------------------------------
(* The operations *)

\* The history after a link call this >> that.
hist_link(this, that) ==
    IF hist # Dirty /\ Len(hist) < MaxHist THEN Append(hist, <<this, that>>) ELSE Dirty

SetLinks(L) == prev_' = L.prev /\ next_' = L.next

\* The operation calls no trigger(), invokes no callable and returns nothing.
NoCalls ==
    /\ trig' = <<>>
    /\ called' = <<>>
    /\ out' = NULL
    /\ UNCHANGED <<pc, cur, fnVars, actorVars>>

\* The objects after construction.
Constructed ==
    /\ alive = [n \in Node |-> TRUE]
    /\ prev_ = [n \in Node |-> NULL]
    /\ next_ = [n \in Node |-> NULL]
    /\ trig = <<>>
    /\ hist = <<>>
    /\ called = <<>>
    /\ out = NULL
    /\ pre = NoLinks
    /\ pc = "idle"
    /\ cur = NULL
    /\ fn = [h \in Holder |-> NoFunction]
    /\ flog = <<>>
    /\ fpre = [h \in Holder |-> NoFunction]
    /\ failed = FALSE
    /\ latch = NoLatch
    /\ lift = NoLift
    /\ timer = NewTimerActor
    /\ tlog = <<>>
    /\ tpre = NewTimerActor.active_timeouts
    /\ led = NewLeds
    /\ collector = NewCollector
    /\ fin = NoFinalizers

\* The state after construction: nothing has been called, and the counter of
\* milliseconds since power-up is at 0.
Init ==
    /\ Constructed
    /\ op = <<"init", NULL, NULL>>
    /\ millis = 0

\* e >> x
Link(e, x) ==
    /\ alive[e] /\ alive[x]
    /\ SetLinks(link(Links, e, x))
    /\ hist' = hist_link(e, x)
    /\ NoCalls
    /\ op' = <<"link", e, x>>
    /\ pre' = Links
    /\ UNCHANGED alive

\* le ^ ri, for the three overloads of operator^.
LinkEither(le, ri) ==
    /\ alive[le] /\ alive[ri]
    /\ le \in Events \/ ri \in Events
    /\ LET this == IF le \in Events THEN le ELSE ri
           that == IF le \in Events THEN ri ELSE le
       IN  /\ SetLinks(link(Links, this, that))
           /\ hist' = hist_link(this, that)
           /\ op' = <<"link", this, that>>
    /\ NoCalls
    /\ pre' = Links
    /\ UNCHANGED alive

\* e.detach()
Detach(e) ==
    /\ alive[e]
    /\ SetLinks(remove(Links, e))
    /\ hist' = Dirty
    /\ NoCalls
    /\ op' = <<"detach", e, NULL>>
    /\ pre' = Links
    /\ UNCHANGED alive

\* e(args...)
Fire(e) ==
    /\ alive[e]
    /\ trig' = fire(Links, e)
    /\ called' = SelectSeq(fire(Links, e), LAMBDA x : x \in Behaviors)
    /\ out' = NULL
    /\ op' = <<"fire", e, NULL>>
    /\ pre' = Links
    /\ UNCHANGED <<alive, prev_, next_, hist, pc, cur, fnVars, actorVars>>

\* *q: the Puller q is materialized.
Materialize(q) ==
    /\ alive[q]
    /\ trig' = fire(Links, q)
    /\ called' = SelectSeq(fire(Links, q), LAMBDA x : x \in Behaviors)
    /\ out' = materialize(Links, q)
    /\ op' = <<"materialize", q, NULL>>
    /\ pre' = Links
    /\ UNCHANGED <<alive, prev_, next_, hist, pc, cur, fnVars, actorVars>>

\* b(args): a Behavior is called directly.
Call(b) ==
    /\ alive[b]
    /\ trig' = behavior_call(Links, b).trig
    /\ called' = behavior_call(Links, b).called
    /\ out' = NULL
    /\ op' = <<"call", b, NULL>>
    /\ pre' = Links
    /\ UNCHANGED <<alive, prev_, next_, hist, pc, cur, fnVars, actorVars>>

\* A new, unlinked object is constructed in the place of a destroyed one.
Construct(n) ==
    /\ ~alive[n]
    /\ alive' = [alive EXCEPT ![n] = TRUE]
    /\ prev_' = [prev_ EXCEPT ![n] = NULL]
    /\ next_' = [next_ EXCEPT ![n] = NULL]
    /\ hist' = Dirty
    /\ NoCalls
    /\ op' = <<"construct", n, NULL>>
    /\ pre' = Links

\* The object n is destroyed.
Destroy(n) ==
    /\ alive[n]
    /\ alive' = [alive EXCEPT ![n] = FALSE]
    /\ SetLinks(dtor(Links, n))
    /\ hist' = Dirty
    /\ NoCalls
    /\ op' = <<"destroy", n, NULL>>
    /\ pre' = Links

\* A new object d is move-constructed from s, an object of the same type.
MoveConstruct(d, s) ==
    /\ ~alive[d] /\ alive[s]
    /\ key(d) = key(s)
    /\ alive' = [alive EXCEPT ![d] = TRUE]
    /\ SetLinks(move_ctor(Links, d, s))
    /\ hist' = Dirty
    /\ NoCalls
    /\ op' = <<"move_ctor", d, s>>
    /\ pre' = Links

\* d = std::move(s), for two objects of the same type.
MoveAssign(d, s) ==
    /\ alive[d] /\ alive[s]
    /\ key(d) = key(s)
    /\ SetLinks(move_assign(Links, d, s))
    /\ hist' = Dirty
    /\ NoCalls
    /\ op' = <<"move_assign", d, s>>
    /\ pre' = Links
    /\ UNCHANGED alive

\* The operations of the ports: Event and Behavior objects used through
\* their public members.
Next ==
    \/ \E e \in Events, x \in Node : Link(e, x)
    \/ \E le \in Node, ri \in Node : LinkEither(le, ri)
    \/ \E e \in Events : Detach(e)
    \/ \E e \in Events : Fire(e)
    \/ \E q \in Events : Materialize(q)
    \/ \E b \in Behaviors : Call(b)
    \/ \E n \in Node : Construct(n)
    \/ \E n \in Node : Destroy(n)
    \/ \E d \in Node, s \in Node : MoveConstruct(d, s)
    \/ \E d \in Node, s \in Node : MoveAssign(d, s)

Spec == Init /\ [][Next]_vars

\* n.merge(that), on the list node itself; that may be null.
Merge(n, that) ==
    /\ alive[n]
    /\ that # NULL => alive[that]
    /\ SetLinks(merge(Links, n, that))
    /\ hist' = Dirty
    /\ NoCalls
    /\ op' = <<"merge", n, that>>
    /\ pre' = Links
    /\ UNCHANGED alive

\* n.remove(), on the list node itself.
Remove(n) ==
    /\ alive[n]
    /\ SetLinks(remove(Links, n))
    /\ hist' = Dirty
    /\ NoCalls
    /\ op' = <<"remove", n, NULL>>
    /\ pre' = Links
    /\ UNCHANGED alive

\* n.clusterize<2>(key), on the list node itself.
Clusterize(n) ==
    /\ alive[n]
    /\ SetLinks(clusterize(Links, n, 2, [x \in Node |-> key(x)]))
    /\ hist' = Dirty
    /\ NoCalls
    /\ op' = <<"clusterize", n, NULL>>
    /\ pre' = Links
    /\ UNCHANGED alive

\* The operations of the list nodes: the members of ListNode called
\* directly, in any order, with the link operation built on them.
NextList ==
    \/ \E n \in Node, that \in Node \cup {NULL} : Merge(n, that)
    \/ \E n \in Node : Remove(n)
    \/ \E n \in Node : Clusterize(n)
    \/ \E e \in Events, x \in Node : Link(e, x)
    \/ \E n \in Node : Construct(n)
    \/ \E n \in Node : Destroy(n)
    \/ \E d \in Node, s \in Node : MoveConstruct(d, s)
    \/ \E d \in Node, s \in Node : MoveAssign(d, s)

SpecList == Init /\ [][NextList]_vars

\* The cluster counts N_Clusters that clusterize<N_Clusters> is instantiated with.
ClusterCounts == {1, 2, 3}

\* The key functions of clusterize<N> on the list of node n: every node of
\* the list gets a cluster index below N. The key function is called on the
\* nodes of the list only, so one value stands for its results elsewhere.
KeyFuncs(L, n, N) ==
    LET members == {x \in Node : head(L, x) = head(L, n)}
    IN  {[x \in Node |-> IF x \in members THEN kf[x] ELSE 0] :
            kf \in [members -> 0..(N - 1)]}

\* A list arrangement is built for clusterize: n.merge(that) on fresh nodes.
Arrange(n, that) ==
    /\ op[1] = "init"
    /\ SetLinks(merge(Links, n, that))
    /\ UNCHANGED <<alive, trig, called, out, hist, op, pre, pc, cur, fnVars, actorVars>>

\* n.clusterize<N>(key_func), applied once to the arrangement.
ClusterizeN(n, N, key_func) ==
    /\ op[1] = "init"
    /\ SetLinks(clusterize(Links, n, N, key_func))
    /\ hist' = Dirty
    /\ NoCalls
    /\ op' = <<"clusterize_n", n, N, key_func>>
    /\ pre' = Links
    /\ UNCHANGED alive

NextClusterize ==
    \/ \E n \in Node, that \in Node : Arrange(n, that)
    \/ \E n \in Node, N \in ClusterCounts :
           /\ op[1] = "init"
           /\ \E key_func \in KeyFuncs(Links, n, N) : ClusterizeN(n, N, key_func)

\* clusterize<N>(key_func) for every N, key function and node, on every list.
SpecClusterize == Init /\ [][NextClusterize]_vars

\* e(args...) is entered: p = this->next().
FireBegin(e) ==
    /\ pc = "idle"
    /\ alive[e]
    /\ pc' = "test"
    /\ cur' = next(Links, e)
    /\ trig' = <<>>
    /\ called' = <<>>
    /\ out' = NULL
    /\ op' = <<"fire_begin", e, NULL>>
    /\ pre' = Links
    /\ UNCHANGED <<alive, prev_, next_, hist, fnVars, actorVars>>

\* while (p != nullptr) { p->trigger(args...): the trigger() of the node p
\* is entered; for a Behavior this calls its stored callable.
Trigger ==
    /\ pc = "test"
    /\ cur # NULL
    /\ pc' = "call"
    /\ trig' = Append(trig, cur) \o trigger(Links, cur)
    /\ called' = IF cur \in Behaviors THEN Append(called, cur) ELSE called
    /\ UNCHANGED <<alive, prev_, next_, out, hist, op, pre, cur, fnVars, actorVars>>

\* The callable of the Behavior being triggered calls e.detach() on an Event.
CallableDetaches(e) ==
    /\ pc = "call"
    /\ cur \in Behaviors
    /\ alive[e]
    /\ SetLinks(remove(Links, e))
    /\ hist' = Dirty
    /\ UNCHANGED <<alive, trig, called, out, op, pre, pc, cur, fnVars, actorVars>>

\* The callable of the Behavior being triggered ends the lifetime of another
\* Behavior b, whose destructor takes it out of its topic.
CallableDestroys(b) ==
    /\ pc = "call"
    /\ cur \in Behaviors
    /\ b \in Behaviors /\ b # cur
    /\ alive[b]
    /\ alive' = [alive EXCEPT ![b] = FALSE]
    /\ SetLinks(dtor(Links, b))
    /\ hist' = Dirty
    /\ UNCHANGED <<trig, called, out, op, pre, pc, cur, fnVars, actorVars>>

\* trigger() has returned: p = p->next().
Advance ==
    /\ pc = "call"
    /\ pc' = "test"
    /\ cur' = next(Links, cur)
    /\ UNCHANGED <<alive, prev_, next_, trig, called, out, hist, op, pre, fnVars, actorVars>>

\* The loop test fails, p == nullptr: e(args...) returns.
FireReturn ==
    /\ pc = "test"
    /\ cur = NULL
    /\ pc' = "idle"
    /\ op' = <<"fire_return", op[2], NULL>>
    /\ UNCHANGED <<alive, prev_, next_, trig, called, out, hist, pre, cur, fnVars, actorVars>>

\* Firing in the steps of its loop, between links and detaches made by the
\* application; a callable triggered by the loop returns, fires nothing, and
\* may detach Events and destroy other Behaviors.
NextFire ==
    \/ \E e \in Events, x \in Node : pc = "idle" /\ Link(e, x)
    \/ \E e \in Events : pc = "idle" /\ Detach(e)
    \/ \E e \in Events : FireBegin(e)
    \/ Trigger
    \/ \E e \in Events : CallableDetaches(e)
    \/ \E b \in Behaviors : CallableDestroys(b)
    \/ Advance
    \/ FireReturn

\* The program has one thread: once e(args...) is entered, its loop keeps
\* taking steps until it returns.
SpecFire ==
    /\ Init
    /\ [][NextFire]_vars
    /\ WF_vars(Trigger) /\ WF_vars(Advance) /\ WF_vars(FireReturn)

\* The port variables, which the operations of Function leave alone.
portVars == <<alive, prev_, next_, trig, called, hist, pre, pc, cur>>

\* The step of a Function operation with result S that returns value.
FunctionStep(S, value, name) ==
    /\ ~failed
    /\ fn' = S.fn
    /\ flog' = S.log
    /\ fpre' = fn
    /\ out' = value
    /\ op' = name
    /\ UNCHANGED failed
    /\ UNCHANGED <<portVars, actorVars>>

\* Function f: default construction.
FnDefault(h) ==
    /\ ~fn[h].alive
    /\ FunctionStep([fn |-> [fn EXCEPT ![h] = EmptyFunction], log |-> <<>>], NULL,
                    <<"fn_default", h>>)

\* Function f(fun): construction from a target of type T that fits.
FnConstruct(h, T, v) ==
    /\ ~fn[h].alive
    /\ T <= Foot(h)
    /\ FunctionStep(construct([fn |-> [fn EXCEPT ![h] = EmptyFunction], log |-> <<>>], h, T, v),
                    NULL, <<"fn_construct", h, T, v>>)

\* Function d(std::move(s)), from a holder of the same or a smaller footprint.
FnMoveConstruct(d, s) ==
    /\ ~fn[d].alive /\ fn[s].alive
    /\ Foot(s) <= Foot(d)
    /\ FunctionStep(function_move_ctor([fn |-> fn, log |-> <<>>], d, s), NULL,
                    <<"fn_move_ctor", d, s>>)

\* d = std::move(s), from a holder of the same or a smaller footprint.
FnMoveAssign(d, s) ==
    /\ fn[d].alive /\ fn[s].alive
    /\ Foot(s) <= Foot(d)
    /\ FunctionStep(function_move_assign([fn |-> fn, log |-> <<>>], d, s), NULL,
                    <<"fn_move_assign", d, s>>)

\* h = fun, for a target of type T that fits.
FnAssign(h, T, v) ==
    /\ fn[h].alive
    /\ T <= Foot(h)
    /\ FunctionStep(function_assign([fn |-> fn, log |-> <<>>], h, T, v), NULL,
                    <<"fn_assign", h, T, v>>)

\* h(args): the call returns the target's result, or the assertion fails
\* and the program is aborted.
FnInvoke(h) ==
    /\ ~failed
    /\ fn[h].alive
    /\ failed' = function_call(fn[h]).failed
    /\ out' = function_call(fn[h]).result
    /\ flog' = <<>>
    /\ fpre' = fn
    /\ op' = <<"fn_invoke", h>>
    /\ UNCHANGED fn
    /\ UNCHANGED <<portVars, actorVars>>

\* The holder h is destroyed.
FnDestroy(h) ==
    /\ fn[h].alive
    /\ FunctionStep(function_dtor([fn |-> fn, log |-> <<>>], h), NULL, <<"fn_destroy", h>>)

NextFunction ==
    \/ \E h \in Holder : FnDefault(h)
    \/ \E h \in Holder, T \in Types, v \in Captures : FnConstruct(h, T, v)
    \/ \E d \in Holder, s \in Holder : FnMoveConstruct(d, s)
    \/ \E d \in Holder, s \in Holder : FnMoveAssign(d, s)
    \/ \E h \in Holder, T \in Types, v \in Captures : FnAssign(h, T, v)
    \/ \E h \in Holder : FnInvoke(h)
    \/ \E h \in Holder : FnDestroy(h)

\* The operations of Function holders, in any order.
SpecFunction == Init /\ [][NextFunction]_vars

\* The variables of the ramen classes, which the actors' own steps leave alone.
ramenVars == <<portVars, fnVars>>

\* A Latch is constructed, for some choice of its three types.
LatchConstruct(In_type, T_val, Out_type) ==
    /\ ~latch.exists
    /\ latch' = latch_ctor(In_type, T_val, Out_type)
    /\ out' = NULL
    /\ op' = <<"latch_ctor">>
    /\ UNCHANGED <<ramenVars, appVars, lift, timerVars>>

\* A value of In_type is pushed into Latch::in.
LatchPush(val) ==
    /\ latch.exists
    /\ val \in TypeValues(latch.In_type)
    /\ latch' = latch_in(latch, val)
    /\ out' = NULL
    /\ op' = <<"latch_push", val>>
    /\ UNCHANGED <<ramenVars, appVars, lift, timerVars>>

\* Latch::out is pulled; the out-parameter comes back in out.
LatchPull ==
    /\ latch.exists
    /\ latch' = [latch EXCEPT !.was = latch.value]
    /\ out' = latch_out(latch)
    /\ op' = <<"latch_pull">>
    /\ UNCHANGED <<ramenVars, appVars, lift, timerVars>>

NextLatch ==
    \/ \E In_type \in Widths, T_val \in Widths, Out_type \in Widths :
           LatchConstruct(In_type, T_val, Out_type)
    \/ \E val \in TypeValues(MaxBits) : LatchPush(val)
    \/ LatchPull

\* Any sequence of pushes and pulls on a Latch of any three types.
SpecLatch == Init /\ [][NextLatch]_vars

\* A Lift is constructed, for some choice of its two types.
LiftConstruct(T_val, Out_type) ==
    /\ ~lift.exists
    /\ lift' = lift_ctor(T_val, Out_type)
    /\ out' = NULL
    /\ op' = <<"lift_ctor">>
    /\ UNCHANGED <<ramenVars, appVars, latch, timerVars>>

\* Lift::trigger is invoked.
LiftTrigger ==
    /\ lift.exists
    /\ lift' = lift_trigger(Links, lift)
    /\ trig' = (IF port_bool(Links, lift_in) THEN fire(Links, lift_in) ELSE <<>>)
               \o (IF port_bool(Links, lift_out) THEN fire(Links, lift_out) ELSE <<>>)
    /\ called' = SelectSeq(trig', LAMBDA x : x \in Behaviors)
    /\ out' = NULL
    /\ op' = <<"lift_trigger">>
    /\ pre' = Links
    /\ UNCHANGED <<alive, prev_, next_, hist, pc, cur, fnVars, appVars, latch, timerVars>>

\* The ports of the Lift are linked to Pullables and Pushables and detached,
\* and the Lift is triggered, in any order.
NextLift ==
    \/ \E T_val \in Widths, Out_type \in Widths : LiftConstruct(T_val, Out_type)
    \/ \E b \in LiftSources : Link(lift_in, b)
    \/ \E b \in LiftSinks : Link(lift_out, b)
    \/ \E e \in {lift_in, lift_out} : Detach(e)
    \/ LiftTrigger

SpecLift == Init /\ [][NextLift]_vars

\* Any sequence of merge and remove on the list nodes, with firings between.
NextWalk ==
    \/ \E n \in Node, that \in Node \cup {NULL} : Merge(n, that)
    \/ \E n \in Node : Remove(n)
    \/ \E e \in Events : Fire(e)

SpecWalk == Init /\ [][NextWalk]_vars

\* The concatenation of the sequences of a sequence.
RECURSIVE Flatten(_)
Flatten(ss) == IF ss = <<>> THEN <<>> ELSE Head(ss) \o Flatten(Tail(ss))

\* setup() has wired the subscribing client.
Wired == port_bool(Links, Subscriber)

\* setup(): the subscribing client is wired to its expiry pusher before the
\* actor receives its first request.
TimerWire ==
    /\ op[1] = "init"
    /\ Link(Subscriber, SinkOf(Subscriber))

\* A step of the TimerActor that fires nothing.
TimerStep(A, name) ==
    /\ Wired
    /\ timer' = A
    /\ tpre' = timer.active_timeouts
    /\ tlog' = <<>>
    /\ trig' = <<>>
    /\ called' = <<>>
    /\ out' = NULL
    /\ op' = name
    /\ UNCHANGED <<alive, prev_, next_, hist, pre, pc, cur, fnVars, appVars, latch, lift, millis>>

\* The arm requests of the clients: the well-formed ones, and ones with a
\* null target pusher, with interval 0, and with both.
ArmRequests ==
    {ArmTimerEvt(1, p, periodic, u) : p \in Pushers, periodic \in BOOLEAN, u \in UserData}
    \cup {ArmTimerEvt(0, p, p = Subscriber, u) : p \in Pushers, u \in UserData}
    \cup {ArmTimerEvt(i, NULL, i = 0, u) : i \in Intervals, u \in UserData}

\* An ArmTimerEvt is pushed into arm_timer_request_in.
TimerArm(evt) ==
    /\ evt \in ArmRequests
    /\ TimerStep(arm_timer_request_in(timer, millis, evt),
                 <<"arm", evt.target_pusher, evt.interval_ms, evt.is_periodic>>)

\* A DisarmTimerEvt is pushed into disarm_timer_request_in.
TimerDisarm(pusher) ==
    /\ pusher \in Pushers \cup {NULL}
    /\ TimerStep(disarm_timer_request_in(timer, pusher),
                 <<"disarm", pusher, Cardinality(matching(timer, pusher))>>)

\* loop() calls timer.update().
TimerUpdate ==
    LET S == update(timer, Links, millis)
        t == Flatten([k \in DOMAIN S.log |-> S.log[k].triggered])
    IN  /\ Wired
        /\ timer' = S.actor
        /\ tpre' = timer.active_timeouts
        /\ tlog' = S.log
        /\ trig' = t
        /\ called' = SelectSeq(t, LAMBDA x : x \in Behaviors)
        /\ out' = NULL
        /\ op' = <<"update">>
        /\ UNCHANGED <<alive, prev_, next_, hist, pre, pc, cur, fnVars, appVars, latch, lift, millis>>

\* A millisecond passes. loop() calls update() before a slot is more than
\* one millisecond past its target time: the counter advances only while no
\* active slot is past its target time.
Tick ==
    /\ Wired
    /\ \A i \in Slots :
          timer.active_timeouts[i].is_active =>
              int32_t(uint32_t(millis - timer.active_timeouts[i].target_millis)) <= 0
    /\ millis' = uint32_t(millis + 1)
    /\ tpre' = timer.active_timeouts
    /\ tlog' = <<>>
    /\ trig' = <<>>
    /\ called' = <<>>
    /\ out' = NULL
    /\ op' = <<"tick">>
    /\ UNCHANGED <<alive, prev_, next_, hist, pre, pc, cur, fnVars, appVars, latch, lift, timer>>

\* The TimerActor and its clients: requests, updates and the clock, in any
\* order.
NextTimer ==
    \/ TimerWire
    \/ \E evt \in ArmRequests : TimerArm(evt)
    \/ \E pusher \in Pushers \cup {NULL} : TimerDisarm(pusher)
    \/ TimerUpdate
    \/ Tick

SpecTimer == Init /\ [][NextTimer]_vars

----------------------------------------------------------------------------
(* TimerActor::update() step by step, with callables that call back *)

\* The number of requests one triggered callable makes before it returns.
MaxRequests == 2

\* Lines 142-146 of update(): what becomes of the slot once its pusher has
\* been invoked.
after_firing(t, ms) == IF t.is_periodic THEN restart_periodic(t, ms) ELSE clear(t)

\* The well-formed arm requests.
ValidArmRequests == {evt \in ArmRequests : evt.target_pusher # NULL /\ evt.interval_ms # 0}

\* The requests a triggered callable makes of the actor: the subscriber
\* arms timers for its own expiry pusher.
CallbackArmRequests == {evt \in ValidArmRequests : evt.target_pusher = Subscriber}

\* The entries of tlog since the last firing: the requests of the callable
\* that is running.
RequestsOfCallback ==
    {k \in DOMAIN tlog : /\ tlog[k].kind # "fire"
                         /\ \A j \in DOMAIN tlog : j > k => tlog[j].kind # "fire"}

\* A client arms a timer from outside update().
ClientArm(evt) ==
    /\ pc = "idle"
    /\ Wired
    /\ timer' = arm_timer_request_in(timer, millis, evt)
    /\ op' = <<"arm", evt.target_pusher, evt.interval_ms, evt.is_periodic>>
    /\ tlog' = <<>>
    /\ trig' = <<>>
    /\ called' = <<>>
    /\ UNCHANGED <<alive, prev_, next_, out, hist, pre, pc, cur, fnVars, appVars, latch, lift,
                   millis, tpre>>

\* A millisecond passes between two calls of update(); as in Tick, update()
\* is called before a slot is more than one millisecond past its target.
ClockTick ==
    /\ pc = "idle"
    /\ Wired
    /\ \A i \in Slots :
          timer.active_timeouts[i].is_active =>
              int32_t(uint32_t(millis - timer.active_timeouts[i].target_millis)) <= 0
    /\ millis' = uint32_t(millis + 1)
    /\ op' = <<"tick">>
    /\ tlog' = <<>>
    /\ trig' = <<>>
    /\ called' = <<>>
    /\ UNCHANGED <<alive, prev_, next_, out, hist, pre, pc, cur, fnVars, appVars, latch, lift,
                   timer, tpre>>

\* update() is entered: now = millis(). op is <<"update", now>> while
\* update() runs, cur is the index i of its loop.
UpdateBegin ==
    /\ pc = "idle"
    /\ Wired
    /\ pc' = "slot"
    /\ cur' = 0
    /\ op' = <<"update", millis>>
    /\ tlog' = <<>>
    /\ trig' = <<>>
    /\ called' = <<>>
    /\ UNCHANGED <<alive, prev_, next_, out, hist, pre, fnVars, appVars, latch, lift, timer,
                   millis, tpre>>

\* One pass of the loop body up to the invocation of the pusher: a slot
\* that is not active or not expired is passed over; an expired slot whose
\* pusher is null or not linked is restarted or cleared at once; otherwise
\* the pusher is invoked and the callable of its subscriber starts to run.
UpdateSlot ==
    /\ pc = "slot"
    /\ cur < MAX_CONCURRENT_TIMEOUTS
    /\ LET t == timer.active_timeouts[cur]
       IN  IF t.is_active /\ expired(op[2], t.target_millis)
           THEN IF t.on_expired_pusher # NULL /\ port_bool(Links, t.on_expired_pusher)
                THEN /\ pc' = "callback"
                     /\ tlog' = Append(tlog, [kind |-> "fire", slot |-> cur,
                                              pusher |-> t.on_expired_pusher])
                     /\ trig' = trig \o fire(Links, t.on_expired_pusher)
                     /\ UNCHANGED <<cur, timer>>
                ELSE /\ timer' = [timer EXCEPT !.active_timeouts[cur] = after_firing(t, millis)]
                     /\ cur' = cur + 1
                     /\ UNCHANGED <<pc, tlog, trig>>
           ELSE /\ cur' = cur + 1
                /\ UNCHANGED <<pc, tlog, trig, timer>>
    /\ UNCHANGED <<alive, prev_, next_, called, out, hist, op, pre, fnVars, appVars, latch, lift,
                   millis, tpre>>

\* The running callable pushes an ArmTimerEvt into arm_timer_request_in.
\* The entry of tlog keeps the request, the slot it was given and the
\* error the actor reports.
CallbackArm(evt) ==
    /\ pc = "callback"
    /\ Cardinality(RequestsOfCallback) < MaxRequests
    /\ LET A == arm_timer_request_in(timer, millis, evt)
       IN  /\ timer' = A
           /\ tlog' = Append(tlog,
                 [kind |-> "arm", pusher |-> evt.target_pusher,
                  interval_ms |-> evt.interval_ms, is_periodic |-> evt.is_periodic,
                  slot |-> IF A.last_error = "NONE" THEN first_free(timer)
                           ELSE MAX_CONCURRENT_TIMEOUTS,
                  error |-> A.last_error])
    /\ UNCHANGED <<alive, prev_, next_, trig, called, out, hist, op, pre, pc, cur, fnVars, appVars,
                   latch, lift, millis, tpre>>

\* The running callable pushes a DisarmTimerEvt into disarm_timer_request_in.
CallbackDisarm(pusher) ==
    /\ pc = "callback"
    /\ Cardinality(RequestsOfCallback) < MaxRequests
    /\ timer' = disarm_timer_request_in(timer, pusher)
    /\ tlog' = Append(tlog, [kind |-> "disarm", pusher |-> pusher,
                             slots |-> matching(timer, pusher)])
    /\ UNCHANGED <<alive, prev_, next_, trig, called, out, hist, op, pre, pc, cur, fnVars, appVars,
                   latch, lift, millis, tpre>>

\* The callable returns, the invocation of the pusher returns, and update()
\* restarts or clears the slot i as it is now, then goes on with the loop.
CallbackReturn ==
    /\ pc = "callback"
    /\ timer' = [timer EXCEPT !.active_timeouts[cur] =
                    after_firing(timer.active_timeouts[cur], millis)]
    /\ cur' = cur + 1
    /\ pc' = "slot"
    /\ called' = Append(called, SinkOf(Subscriber))
    /\ UNCHANGED <<alive, prev_, next_, trig, out, hist, op, pre, fnVars, appVars, latch, lift,
                   millis, tlog, tpre>>

\* The loop of update() is over.
UpdateReturn ==
    /\ pc = "slot"
    /\ cur = MAX_CONCURRENT_TIMEOUTS
    /\ pc' = "idle"
    /\ cur' = NULL
    /\ op' = <<"updated", op[2]>>
    /\ UNCHANGED <<alive, prev_, next_, trig, called, out, hist, pre, fnVars, appVars, latch, lift,
                   timer, millis, tlog, tpre>>

NextReentrant ==
    \/ TimerWire
    \/ \E evt \in ValidArmRequests : ClientArm(evt)
    \/ ClockTick
    \/ UpdateBegin
    \/ UpdateSlot
    \/ \E evt \in CallbackArmRequests : CallbackArm(evt)
    \/ CallbackDisarm(Subscriber)
    \/ CallbackReturn
    \/ UpdateReturn

SpecReentrant == Init /\ [][NextReentrant]_vars

----------------------------------------------------------------------------
(* The expiry test on its own *)

\* The values of a counter of WordBits bits.
Word == 0..(2^WordBits - 1)

\* The intervals below half the range of the counter that a request can
\* ask for (interval 0 is rejected by arm_timer_request_in).
HalfRangeIntervals == 1..(2^(WordBits - 1) - 1)

\* A slot is about to be armed: millis() is anything, and so is the
\* interval of the request. op is <<name, interval_ms, target_millis,
\* the milliseconds elapsed since arming, millis() at arming, the outcome of
\* the last expiry test>>.
InitExpiry ==
    /\ Constructed
    /\ millis \in Word
    /\ \E interval_ms \in HalfRangeIntervals :
          op = <<"request", interval_ms, 0, 0, millis, FALSE>>

\* setup_periodic / setup_oneshot compute the target time of the slot.
ExpiryArm ==
    /\ op[1] = "request"
    /\ op' = <<"armed", op[2], target_after(millis, op[2], WordBits), 0, millis, FALSE>>
    /\ UNCHANGED <<alive, prev_, next_, trig, called, out, hist, pre, pc, cur, fnVars, appVars,
                   latch, lift, timer, millis, tlog, tpre>>

\* A millisecond passes, while update() is polled less than half the range
\* of the counter after the target time.
ExpiryTick ==
    /\ op[1] \in {"armed", "polled"}
    /\ op[4] + 1 < op[2] + 2^(WordBits - 1)
    /\ millis' = (millis + 1) % (2^WordBits)
    /\ op' = <<"armed", op[2], op[3], op[4] + 1, op[5], op[6]>>
    /\ UNCHANGED <<alive, prev_, next_, trig, called, out, hist, pre, pc, cur, fnVars, appVars,
                   latch, lift, timer, tlog, tpre>>

\* update() tests the slot.
ExpiryPoll ==
    /\ op[1] = "armed"
    /\ op' = <<"polled", op[2], op[3], op[4], op[5], expired_at(millis, op[3], WordBits)>>
    /\ UNCHANGED <<alive, prev_, next_, trig, called, out, hist, pre, pc, cur, fnVars, appVars,
                   latch, lift, timer, millis, tlog, tpre>>

NextExpiry ==
    \/ ExpiryArm
    \/ ExpiryTick
    \/ ExpiryPoll

SpecExpiry == InitExpiry /\ [][NextExpiry]_vars

----------------------------------------------------------------------------
(* The LEDs, the TimerActor and the commands, as setup() and loop() run them *)

\* What the steps of the LED system leave alone.
blinkyFrame ==
    <<alive, prev_, next_, trig, called, out, hist, pre, pc, cur, fnVars, latch, lift,
      tlog, tpre, collector, fin>>

\* The LEDs and the TimerActor, as the operations of an LED take them.
System == [led |-> led, timer |-> timer]

\* setup(): the request pushers of the three LEDs are linked to the
\* TimerActor, then the three LEDs are started. From then on loop() runs:
\* op is <<"loop">>.
BlinkySetup ==
    /\ op[1] = "init"
    /\ LET S == start_all(System, millis, 1)
       IN  /\ led' = S.led
           /\ timer' = S.timer
    /\ op' = <<"loop">>
    /\ UNCHANGED <<blinkyFrame, millis>>

\* The interval a parsed interval command may carry: also 0 and a number
\* above the largest accepted one.
ParsedIntervals == 0..(MaxIntervalMs + 1)

\* commander.update(): a command line for the LED i is parsed and executed.
\* An interval command out of range is answered with an error and changes
\* nothing. op tells the commands that make the LED i arm its timer (a
\* start of a stopped LED, an interval command for a blinking LED) from the
\* other steps of loop().
BlinkyCommand(i, type, parsed_interval) ==
    /\ op[1] # "init"
    /\ type = "SET_INTERVAL" \/ parsed_interval = 0
    /\ LET S == IF type = "SET_INTERVAL" /\ ~interval_accepted(parsed_interval)
                THEN System
                ELSE command_in(System, i, millis, type, parsed_interval)
       IN  /\ led' = S.led
           /\ timer' = S.timer
    /\ op' = IF \/ (type = "START" /\ led[i].state = "stopped")
                 \/ (type = "SET_INTERVAL" /\ interval_accepted(parsed_interval)
                        /\ led[i].state # "stopped")
              THEN <<"loop", "armed", i>>
              ELSE <<"loop">>
    /\ UNCHANGED <<blinkyFrame, millis>>

\* timer.update(): the expired slots fire, and the handler of each LED
\* whose pusher fired runs. The handlers make no request of the actor.
BlinkyUpdate ==
    /\ op[1] # "init"
    /\ op' = <<"loop">>
    /\ UNCHANGED <<blinkyFrame, millis>>
    /\ \E U \in {update(timer, RelayLinks, millis)} :
       \E S \in {deliver([led |-> led, timer |-> U.actor], millis,
                        Flatten([k \in DOMAIN U.log |-> U.log[k].triggered]))} :
           /\ led' = S.led
           /\ timer' = S.timer

\* A millisecond passes; loop() runs more often than that, so update() is
\* called before a slot is more than one millisecond past its target.
BlinkyTick ==
    /\ op[1] # "init"
    /\ \A s \in Slots :
          timer.active_timeouts[s].is_active =>
              int32_t(uint32_t(millis - timer.active_timeouts[s].target_millis)) <= 0
    /\ millis' = uint32_t(millis + 1)
    /\ op' = <<"loop">>
    /\ UNCHANGED <<blinkyFrame, led, timer>>

\* A BaseEvent of the given type is pushed into the Pushable
\* event_handler_in of the LED i.
BlinkyEvent(i, type) ==
    /\ op[1] # "init"
    /\ type \in AppEventTypes
    /\ LET S == event_handler_in(System, i, millis, type)
       IN  /\ led' = S.led
           /\ timer' = S.timer
    /\ op' = <<"loop">>
    /\ UNCHANGED <<blinkyFrame, millis>>

\* setup(), then loop(): commands, updates and the clock, in any order.
NextBlinky ==
    \/ BlinkySetup
    \/ \E i \in Leds, type \in LedCommandTypes, parsed_interval \in ParsedIntervals :
          BlinkyCommand(i, type, parsed_interval)
    \/ BlinkyUpdate
    \/ BlinkyTick

SpecBlinky == Init /\ [][NextBlinky]_vars

\* setup(), then loop(), with the commands all addressed to led2.
NextBlinkyLive ==
    \/ BlinkySetup
    \/ \E type \in LedCommandTypes, parsed_interval \in ParsedIntervals :
          BlinkyCommand(2, type, parsed_interval)
    \/ BlinkyUpdate
    \/ BlinkyTick

\* loop() never stops: timer.update() is called again and again, and the
\* millisecond clock keeps advancing between the calls.
SpecBlinkyLive ==
    /\ Init
    /\ [][NextBlinkyLive]_vars
    /\ WF_vars(BlinkyUpdate)
    /\ WF_vars(BlinkyTick)

\* A start or a stop command for the LED i.
BlinkyStartStop(i, type) ==
    /\ type \in {"START", "STOP"}
    /\ BlinkyCommand(i, type, 0)

\* The LEDs as components: besides the timer, anything may push a BaseEvent
\* into the handler of an LED.
NextLedEvents ==
    \/ BlinkySetup
    \/ \E i \in Leds, type \in LedCommandTypes : BlinkyStartStop(i, type)
    \/ BlinkyUpdate
    \/ BlinkyTick
    \/ \E i \in Leds, type \in AppEventTypes : BlinkyEvent(i, type)

SpecLedEvents == Init /\ [][NextLedEvents]_vars

----------------------------------------------------------------------------
(* The SerialCollectorActor on its own, fed one character at a time *)

\* What the collector leaves alone.
collectorFrame ==
    <<alive, prev_, next_, trig, called, out, hist, pre, pc, cur, fnVars, latch, lift,
      timerVars, led, fin>>

\* A SerialCharEvent with the character c is pushed into char_in. typed
\* follows pos: it is emptied whenever the call leaves pos at 0.
CollectorChar(c) ==
    /\ op' = <<"char_in", c, collector.pos, collector.typed>>
    /\ LET C == char_in(collector, c)
       IN  collector' = [C EXCEPT !.typed = IF C.pos = 0 THEN <<>>
                                            ELSE Append(collector.typed, c)]
    /\ UNCHANGED collectorFrame

NextCollector == \E c \in Chars : CollectorChar(c)

SpecCollector == Init /\ [][NextCollector]_vars

----------------------------------------------------------------------------
(* Finalizers: constructed, moved, move-assigned, disarmed and destroyed *)

\* What the Finalizers leave alone.
finalizerFrame ==
    <<alive, prev_, next_, trig, called, out, hist, pre, pc, cur, fnVars, latch, lift,
      timerVars, led, collector>>

\* The Finalizers with the calls of the last operation forgotten.
Quiet == [fin EXCEPT !.called = <<>>]

\* Finalizer h; : the default constructor.
FinDefault(h) ==
    /\ ~fin.act_[h].alive
    /\ fin' = finalizer_default(Quiet, h)
    /\ op' = <<"fin_default", h, h, <<>> >>
    /\ UNCHANGED finalizerFrame

\* Finalizer h(a), for an action a of the user that was not used before.
FinConstruct(h, a) ==
    /\ ~fin.act_[h].alive
    /\ a \notin fin.made
    /\ fin' = [finalizer_ctor(Quiet, h, a) EXCEPT !.made = @ \cup {a}]
    /\ op' = <<"fin_ctor", h, h, <<>> >>
    /\ UNCHANGED finalizerFrame

\* Finalizer d(std::move(s));
FinMoveConstruct(d, s) ==
    /\ ~fin.act_[d].alive /\ fin.act_[s].alive
    /\ fin' = finalizer_move_ctor(Quiet, d, s)
    /\ op' = <<"fin_move_ctor", d, s, <<>> >>
    /\ UNCHANGED finalizerFrame

\* d = std::move(s); also with d and s the same Finalizer.
FinMoveAssign(d, s) ==
    /\ fin.act_[d].alive /\ fin.act_[s].alive
    /\ fin' = finalizer_move_assign(Quiet, d, s)
    /\ op' = <<"fin_move_assign", d, s, held(fin, d)>>
    /\ UNCHANGED finalizerFrame

\* h.disarm();
FinDisarm(h) ==
    /\ fin.act_[h].alive
    /\ fin' = [disarm(Quiet, h) EXCEPT
                  !.disarmed = @ \cup ({held(fin, h)} \cap UserActions)]
    /\ op' = <<"fin_disarm", h, h, held(fin, h)>>
    /\ UNCHANGED finalizerFrame

\* The Finalizer h goes out of scope.
FinDestroy(h) ==
    /\ fin.act_[h].alive
    /\ fin' = finalizer_dtor(Quiet, h)
    /\ op' = <<"fin_dtor", h, h, held(fin, h)>>
    /\ UNCHANGED finalizerFrame

NextFinalizer ==
    \/ \E h \in Holder : FinDefault(h) \/ FinDisarm(h) \/ FinDestroy(h)
    \/ \E h \in Holder, a \in UserActions : FinConstruct(h, a)
    \/ \E d, s \in Holder : FinMoveConstruct(d, s) \/ FinMoveAssign(d, s)

SpecFinalizer == Init /\ [][NextFinalizer]_vars

----------------------------------------------------------------------------
(* Reading the lists, for the properties *)

LinksOf(pv, nx) == [prev |-> pv, next |-> nx]

RECURSIVE FirstOf(_, _, _)
FirstOf(L, p, k) == IF L.prev[p] = NULL \/ k = 0 THEN p ELSE FirstOf(L, L.prev[p], k - 1)

RECURSIVE FollowNext(_, _, _)
FollowNext(L, p, k) ==
    IF p = NULL \/ k = 0 THEN <<>> ELSE <<p>> \o FollowNext(L, L.next[p], k - 1)

\* The list that holds n, from its first node to its last.
ListOf(L, n) == FollowNext(L, FirstOf(L, n, NumNodes), NumNodes)

Range(s) == {s[i] : i \in DOMAIN s}

Count(s, x) == Cardinality({i \in DOMAIN s : s[i] = x})

Without(s, x) == SelectSeq(s, LAMBDA y : y # x)

Subst(s, x, y) == [i \in DOMAIN s |-> IF s[i] = x THEN y ELSE s[i]]

\* The part of the sequence s after its element x.
AfterIn(s, x) ==
    LET i == CHOOSE k \in DOMAIN s : s[k] = x
    IN  SubSeq(s, i + 1, Len(s))

\* The links of m are what they were before the last operation.
SameLinks(m) == prev_[m] = pre.prev[m] /\ next_[m] = pre.next[m]

RECURSIVE ReachesNull(_, _, _)
ReachesNull(f, n, k) ==
    IF n = NULL THEN TRUE ELSE IF k = 0 THEN FALSE ELSE ReachesNull(f, f[n], k - 1)

EventsBeforeBehaviors(s) ==
    \A i, j \in DOMAIN s : (i < j) => ~(s[i] \in Behaviors /\ s[j] \in Events)

\* The first link call of h that linked n to another node.
LinkedAt(h, n) ==
    LET at == {i \in DOMAIN h : (h[i][1] = n \/ h[i][2] = n) /\ h[i][1] # h[i][2]}
    IN  CHOOSE i \in at : \A j \in at : i <= j

\* h is p >> b1, p >> b2, ..., p >> bn for one Event p and distinct Behaviors.
SuccessiveLinks(h) ==
    /\ Len(h) >= 1
    /\ \A i \in DOMAIN h : h[i][1] = h[1][1] /\ h[i][2] \in Behaviors
    /\ \A i, j \in DOMAIN h : (i # j) => h[i][2] # h[j][2]

----------------------------------------------------------------------------
(* Properties *)

\* C1: after any sequence of link, detach, destruction and move operations,
\* every list has all its Events before all its Behaviors.
C1_EventsBeforeBehaviors ==
    \A n \in Node : alive[n] => EventsBeforeBehaviors(ListOf(Links, n))

\* A topic of two Events and a Behavior, after a detach, a destruction or a move.
C1_Witness ==
    /\ op[1] \in {"detach", "destroy", "move_ctor", "move_assign"}
    /\ \E n \in Node :
          /\ alive[n]
          /\ Cardinality(Range(ListOf(Links, n)) \cap Events) >= 2
          /\ Range(ListOf(Links, n)) \cap Behaviors # {}

\* C2: firing an Event triggers every Behavior of its topic exactly once and
\* no Behavior outside the topic.
C2_FireTriggersTopic ==
    (op[1] = "fire") =>
        LET topic == ListOf(Links, op[2])
        IN  \A b \in Behaviors : Count(trig, b) = IF b \in Range(topic) THEN 1 ELSE 0

\* An Event that is not the first node of its topic is fired, after detaches,
\* destructions or moves; the topic holds a Behavior and another Behavior
\* is outside of it.
C2_Witness ==
    /\ op[1] = "fire"
    /\ hist = Dirty
    /\ prev_[op[2]] # NULL
    /\ Range(ListOf(Links, op[2])) \cap Behaviors # {}
    /\ \E b \in Behaviors : alive[b] /\ b \notin Range(ListOf(Links, op[2]))

\* C3: after p >> b1, p >> b2, ..., p >> bn, one firing of p invokes b1, b2,
\* ..., bn, each once, in this order.
C3_FireInLinkOrder ==
    (op[1] = "fire" /\ SuccessiveLinks(hist) /\ op[2] = hist[1][1]) =>
        trig = [i \in DOMAIN hist |-> hist[i][2]]

\* p was linked to two Behaviors or more, and fired.
C3_Witness ==
    /\ op[1] = "fire"
    /\ SuccessiveLinks(hist)
    /\ op[2] = hist[1][1]
    /\ Len(hist) >= 2

\* C4: in a firing, a Behavior that an earlier link call linked into the
\* topic is triggered before one that a later link call linked.
C4_TriggeredInOrderOfLinking ==
    (op[1] = "fire" /\ hist # Dirty) =>
        \A i, j \in DOMAIN trig :
            (i < j /\ trig[i] \in Behaviors /\ trig[j] \in Behaviors) =>
                LinkedAt(hist, trig[i]) <= LinkedAt(hist, trig[j])

\* C5: when Event a is linked to Behavior c and to Event b, in either order,
\* firing a visits b before c.
C5_ChainedEventFirst ==
    \A a \in Events, b \in Events, c \in Behaviors :
        ( /\ a # b
          /\ op = <<"fire", a, NULL>>
          /\ hist \in { << <<a, c>>, <<a, b>> >>, << <<a, b>>, <<a, c>> >> } ) =>
            trig = <<b, c>>

\* The Behavior was linked before the Event, and a was fired.
C5_Witness ==
    \E a \in Events, b \in Events, c \in Behaviors :
        /\ a # b
        /\ op = <<"fire", a, NULL>>
        /\ hist = << <<a, c>>, <<a, b>> >>

\* C6: detaching or destroying a node leaves the other nodes of its list in
\* one list, in the same order; a remaining Event then triggers exactly the
\* remaining Behaviors; only the node and its two neighbours change links.
C6_DetachKeepsTheRest ==
    (op[1] \in {"detach", "destroy"}) =>
        LET n    == op[2]
            rest == Without(ListOf(pre, n), n)
        IN  /\ \A m \in Range(rest) : ListOf(Links, m) = rest
            /\ \A e \in Range(rest) \cap Events :
                   \A b \in Behaviors :
                       Count(fire(Links, e), b) = IF b \in Range(rest) THEN 1 ELSE 0
            /\ \A m \in Node \ {n, pre.prev[n], pre.next[n]} : SameLinks(m)
            /\ ~linked(Links, n)

\* A node between two others was detached or destroyed, and the rest holds
\* an Event and a Behavior.
C6_Witness ==
    /\ op[1] \in {"detach", "destroy"}
    /\ pre.prev[op[2]] # NULL
    /\ pre.next[op[2]] # NULL
    /\ Range(ListOf(Links, pre.prev[op[2]])) \cap Behaviors # {}

\* C7: in every state the links are symmetric (a.next = b iff b.prev = a)
\* and following next or prev from any node reaches null.
C7_SymmetricAcyclic ==
    /\ \A a \in Node :
          /\ next_[a] # NULL => prev_[next_[a]] = a
          /\ prev_[a] # NULL => next_[prev_[a]] = a
    /\ \A n \in Node :
          /\ ReachesNull(next_, n, NumNodes)
          /\ ReachesNull(prev_, n, NumNodes)

\* A node was move-assigned from its successor, inside a list of four.
C7_Witness ==
    /\ op[1] = "move_assign"
    /\ pre.next[op[2]] = op[3]
    /\ pre.prev[op[2]] # NULL
    /\ pre.next[op[3]] # NULL

\* C8: no surviving node links to a destroyed node; the former neighbours
\* of a destroyed node are linked to each other, and no walk reaches it.
C8_NoLinkToDestroyed ==
    /\ \A n \in Node :
          alive[n] => /\ prev_[n] # NULL => alive[prev_[n]]
                      /\ next_[n] # NULL => alive[next_[n]]
    /\ (op[1] = "destroy") =>
          LET n == op[2]
              p == pre.prev[n]
              x == pre.next[n]
          IN  /\ p # NULL => next_[p] = x
              /\ x # NULL => prev_[x] = p
              /\ \A m \in Node \ {n} :
                    /\ n \notin Range(ListOf(Links, m))
                    /\ n \notin Range(fire(Links, m))

\* A node with a predecessor and a successor was destroyed.
C8_Witness ==
    /\ op[1] = "destroy"
    /\ pre.prev[op[2]] # NULL
    /\ pre.next[op[2]] # NULL

\* C9: a move puts the destination at the source's place in its list and
\* leaves the source unlinked; a move assignment first takes the destination
\* out of its own list, which otherwise stays as it was.
C9_MoveTakesPosition ==
    /\ (op[1] = "move_ctor") =>
          LET d  == op[2]
              s  == op[3]
              ss == ListOf(pre, s)
          IN  /\ ListOf(Links, d) = Subst(ss, s, d)
              /\ ~linked(Links, s)
              /\ pre.prev[s] # NULL => next_[pre.prev[s]] = d /\ prev_[d] = pre.prev[s]
              /\ pre.next[s] # NULL => prev_[pre.next[s]] = d /\ next_[d] = pre.next[s]
              /\ \A m \in Node \ ({d} \cup Range(ss)) : SameLinks(m)
    /\ (op[1] = "move_assign" /\ op[2] # op[3]) =>
          LET d  == op[2]
              s  == op[3]
              ds == ListOf(pre, d)
              ss == Without(ListOf(pre, s), d)
              to == Subst(ss, s, d)
          IN  /\ ListOf(Links, d) = to
              /\ \A i \in DOMAIN to :
                    /\ prev_[to[i]] = IF i = 1 THEN NULL ELSE to[i - 1]
                    /\ next_[to[i]] = IF i = Len(to) THEN NULL ELSE to[i + 1]
              /\ ~linked(Links, s)
              /\ \A m \in Range(ds) \ ({d} \cup Range(ss)) :
                    ListOf(Links, m) = Without(ds, d)
              /\ \A m \in Node \ (Range(ds) \cup Range(ss)) : SameLinks(m)

\* A node of one list was move-assigned from a node of another list.
C9_Witness ==
    /\ op[1] = "move_assign"
    /\ linked(pre, op[2])
    /\ linked(pre, op[3])
    /\ op[3] \notin Range(ListOf(pre, op[2]))

\* C10: merge joins two distinct lists, this list first and that list after
\* it, each in its order; on one list, on null and on this it changes no
\* link, so a repeated merge changes nothing.
C10_MergeAppends ==
    (op[1] = "merge") =>
        LET this == op[2]
            that == op[3]
            a    == ListOf(pre, this)
        IN  /\ IF that # NULL /\ that \notin Range(a)
               THEN /\ ListOf(Links, this) = a \o ListOf(pre, that)
                    /\ \A m \in Node \ (Range(a) \cup Range(ListOf(pre, that))) :
                          SameLinks(m)
               ELSE Links = pre
            /\ merge(Links, this, that) = Links

\* Two lists of two nodes were merged through nodes that are neither the
\* tail of the first nor the head of the second.
C10_Witness ==
    /\ op[1] = "merge"
    /\ op[3] # NULL
    /\ op[3] \notin Range(ListOf(pre, op[2]))
    /\ pre.next[op[2]] # NULL
    /\ pre.prev[op[3]] # NULL

\* C11: remove() is idempotent and safe unconditionally. After every remove
\* the node is unlinked and a second remove on it would change no link; a
\* remove on a node that was unlinked changed no link.
C11_RemoveIdempotent ==
    op[1] = "remove" =>
        /\ Links = remove(pre, op[2])
        /\ ~linked(Links, op[2])
        /\ remove(Links, op[2]) = Links
        /\ remove(remove(pre, op[2]), op[2]) = remove(pre, op[2])
        /\ (~linked(pre, op[2]) => Links = pre)

\* A node with a predecessor and a successor was removed.
C11_Witness ==
    /\ op[1] = "remove"
    /\ pre.prev[op[2]] # NULL
    /\ pre.next[op[2]] # NULL
    /\ Links # pre

\* C14: the bool conversion of a port is true exactly when the port shares a
\* list with at least one other node. It is false for a port that was just
\* constructed, detached or moved from, and for the node left alone when the
\* only other node of its topic was detached or destroyed.
C14_BoolIffSharesList ==
    /\ \A n \in Node : alive[n] =>
           (port_bool(Links, n) <=> \E m \in Node \ {n} : m \in Range(ListOf(Links, n)))
    /\ (op[1] \in {"init", "construct"}) =>
           \A n \in Node : (op[1] = "init" \/ n = op[2]) => ~port_bool(Links, n)
    /\ (op[1] = "detach") => ~port_bool(Links, op[2])
    /\ (op[1] \in {"move_ctor", "move_assign"} /\ op[2] # op[3]) => ~port_bool(Links, op[3])
    /\ (op[1] \in {"detach", "destroy"} /\ Len(ListOf(pre, op[2])) = 2) =>
           \A m \in Range(ListOf(pre, op[2])) : ~port_bool(Links, m)

\* The only partner of a linked port was destroyed, and the port that is left
\* reported true before.
C14_Witness ==
    /\ op[1] = "destroy"
    /\ Len(ListOf(pre, op[2])) = 2
    /\ \E m \in Range(ListOf(pre, op[2])) \ {op[2]} :
           alive[m] /\ port_bool(pre, m) /\ ~port_bool(Links, m)

\* C15: calling a Behavior directly invokes only its own stored callable,
\* exactly once; no node of its topic is triggered and no link changes.
C15_CallInvokesOnlyItself ==
    op[1] = "call" =>
        /\ called = <<op[2]>>
        /\ trig = <<>>
        /\ Links = pre

\* The Behavior called sits in a topic with an Event and another Behavior.
C15_Witness ==
    /\ op[1] = "call"
    /\ called # <<>>
    /\ \E e \in Events, b \in Behaviors \ {op[2]} :
           {e, b} \subseteq Range(ListOf(Links, op[2]))

\* C20: materializing a Puller returns the value written by the linked
\* Pullable (42 for the Pullable that writes 42), and the default value 0,
\* without failure, when the Puller is unlinked. With several Pullables the
\* last one in list order decides.
C20_MaterializeYieldsPulledValue ==
    op[1] = "materialize" =>
        LET q  == op[2]
            bs == SelectSeq(AfterIn(ListOf(pre, q), q), LAMBDA x : x \in Behaviors)
        IN  /\ Links = pre
            /\ (~port_bool(pre, q) => out = DefaultValue /\ out = 0)
            /\ \A r \in Behaviors : (ListOf(pre, q) = <<q, r>>) => out = PullValue(r)
            /\ out = IF bs = <<>> THEN DefaultValue ELSE PullValue(bs[Len(bs)])

\* The Puller was linked to the single Pullable that writes 42, and yielded 42.
C20_Witness ==
    /\ op[1] = "materialize"
    /\ \E r \in Behaviors : ListOf(Links, op[2]) = <<op[2], r>> /\ PullValue(r) = 42
    /\ out = 42

\* C13: after any sequence of merge and remove, the walk of a firing node
\* visits exactly the nodes that follow it in its list, each exactly once,
\* and never a node that was removed: every visited node is linked, the first
\* one points back to the firing node and each next one to the one before it.
\* A remove takes the removed node, and nothing else, out of every walk.
C13_WalkVisitsLinkedNodesOnce ==
    /\ op[1] = "fire" =>
           LET e == op[2]
           IN  /\ trig = AfterIn(ListOf(Links, e), e)
               /\ \A x \in Range(trig) : Count(trig, x) = 1 /\ x # e /\ linked(Links, x)
               /\ \A x \in Node : ~linked(Links, x) => x \notin Range(trig)
               /\ \A i \in DOMAIN trig :
                      prev_[trig[i]] = (IF i = 1 THEN e ELSE trig[i - 1])
               /\ next_[IF trig = <<>> THEN e ELSE trig[Len(trig)]] = NULL
    /\ op[1] = "remove" =>
           \A e \in Events \ {op[2]} :
               /\ op[2] \notin Range(fire(Links, e))
               /\ fire(Links, e) = Without(fire(pre, e), op[2])

\* The firing node had a predecessor and followers, and another node is
\* out of every list.
C13_Witness ==
    /\ op[1] = "fire"
    /\ prev_[op[2]] # NULL
    /\ trig # <<>>
    /\ \E x \in Node : ~linked(Links, x)

\* The buckets i..N-1 of the sequence s under the key function kf, each in
\* the order of s, one after the other.
RECURSIVE Buckets(_, _, _, _)
Buckets(s, kf, i, N) ==
    IF i >= N
    THEN <<>>
    ELSE SelectSeq(s, LAMBDA x : kf[x] = i) \o Buckets(s, kf, i + 1, N)

\* C12: clusterize<N>(key_func) on any node of a list is a stable partition
\* of the whole list: afterwards it is one list of the same nodes, bucket 0
\* first and bucket N-1 last, each bucket in its former order, with empty
\* buckets skipped; no other node changes; clusterizing again from any node
\* changes nothing, and a list that was already ordered is left as it was.
C12_ClusterizeStablePartition ==
    op[1] = "clusterize_n" =>
        LET n   == op[2]
            N   == op[3]
            kf  == op[4]
            old == ListOf(pre, n)
            new == Buckets(old, kf, 0, N)
        IN  /\ \A m \in Range(old) : ListOf(Links, m) = new
            /\ \A i \in DOMAIN new :
                   /\ prev_[new[i]] = (IF i = 1 THEN NULL ELSE new[i - 1])
                   /\ next_[new[i]] = (IF i = Len(new) THEN NULL ELSE new[i + 1])
            /\ Range(new) = Range(old) /\ Len(new) = Len(old)
            /\ \A i, j \in DOMAIN new : (i < j) => kf[new[i]] <= kf[new[j]]
            /\ \A m \in Node \ Range(old) : SameLinks(m)
            /\ \A m \in Range(old) : clusterize(Links, m, N, kf) = Links
            /\ (\A i, j \in DOMAIN old : (i < j) => kf[old[i]] <= kf[old[j]]) => Links = pre

\* Three clusters with the middle one empty: the list held two nodes of the
\* last cluster before a node of the first, and was reordered.
C12_Witness ==
    /\ op[1] = "clusterize_n"
    /\ op[3] = 3
    /\ LET old == ListOf(pre, op[2])
           kf  == op[4]
       IN  /\ \A x \in Range(old) : kf[x] # 1
           /\ \E i, j, k \in DOMAIN old :
                  i < j /\ j < k /\ kf[old[i]] = 2 /\ kf[old[j]] = 2 /\ kf[old[k]] = 0
    /\ Links # pre

\* s is a subsequence of t: the elements of s, in the order of t.
IsSubSeq(s, t) == s = SelectSeq(t, LAMBDA x : x \in Range(s))

C17_HolderReproducesTarget ==
    /\ op[1] \in {"fn_construct", "fn_assign"} =>
           /\ function_bool(fn[op[2]])
           /\ function_call(fn[op[2]]) = [failed |-> FALSE, result |-> target_call(op[3], op[4])]
    /\ (op[1] \in {"fn_move_ctor", "fn_move_assign"} /\ op[2] # op[3]) =>
           /\ ~function_bool(fn[op[3]])
           /\ function_bool(fn[op[2]]) <=> function_bool(fpre[op[3]])
           /\ function_bool(fpre[op[3]]) =>
                  /\ function_call(fn[op[2]]) = function_call(fpre[op[3]])
                  /\ fn[op[2]].obj = fpre[op[3]].obj
    /\ (op[1] = "fn_invoke" /\ function_bool(fpre[op[2]])) =>
           /\ ~failed
           /\ out = target_call(fpre[op[2]].obj.T, fpre[op[2]].obj.v)

\* A holder of the larger footprint, which held a target, was move-assigned
\* a target from a holder of the smaller footprint.
C17_Witness ==
    /\ op[1] = "fn_move_assign"
    /\ Foot(op[3]) < Foot(op[2])
    /\ function_bool(fpre[op[3]])
    /\ function_bool(fpre[op[2]])
    /\ function_call(fn[op[2]]).result # function_call(fpre[op[2]]).result

\* C18: invoking a Function that holds no target, default-constructed or
\* moved-from, fails the assertion and invokes nothing; a holder that held
\* no target holds one after an operation only if the operation constructed
\* or assigned it from a target, or moved one in from a holder that held one.
C18_EmptyHolderFailsAssertion ==
    /\ (op[1] = "fn_invoke" /\ ~function_bool(fpre[op[2]])) =>
           failed /\ out = NULL /\ flog = <<>> /\ fn = fpre
    /\ failed => (op[1] = "fn_invoke" /\ ~function_bool(fpre[op[2]]))
    /\ \A h \in Holder :
           (~function_bool(fpre[h]) /\ function_bool(fn[h])) =>
               \/ op[1] \in {"fn_construct", "fn_assign"} /\ op[2] = h
               \/ /\ op[1] \in {"fn_move_ctor", "fn_move_assign"}
                  /\ op[2] = h
                  /\ function_bool(fpre[op[3]])

\* A moved-from holder was invoked.
C18_Witness ==
    /\ op[1] = "fn_invoke"
    /\ fpre[op[2]].obj.moved
    /\ failed

\* C19: assigning a target to a Function that holds one, from a callable or
\* by a move from another holder, first runs the destructor of the old
\* target and then constructs the new one; no target is ever constructed in
\* a buffer that holds a live target.
C19_OldTargetDestroyedFirst ==
    /\ \A i \in DOMAIN flog :
           flog[i].kind \in {"ctor", "move"} => (flog[i].over = NoObj \/ flog[i].over.moved)
    /\ ( /\ op[1] \in {"fn_assign", "fn_move_assign"}
         /\ op[1] = "fn_move_assign" => op[2] # op[3]
         /\ function_bool(fpre[op[2]]) ) =>
           /\ flog # <<>>
           /\ flog[1] = LifeEvent("dtor", op[2], fpre[op[2]].obj, fpre[op[2]].obj)
           /\ \A i \in DOMAIN flog : (i > 1) =>
                  /\ flog[i].kind \in {"ctor", "move"}
                  /\ flog[i].at = op[2]
                  /\ flog[i].over = NoObj
           /\ function_bool(fn[op[2]]) => Len(flog) = 2

\* A holder with a target was assigned a target of another type from a callable.
C19_Witness ==
    /\ op[1] = "fn_assign"
    /\ function_bool(fpre[op[2]])
    /\ fpre[op[2]].obj.T # op[3]
    /\ Len(flog) = 2

\* C21: when several Pullables are linked to one Puller, a pull invokes all
\* of them, each once, in list order, and the caller observes the value
\* written by the last of them; nothing fails.
C21_LastPullableWins ==
    op[1] = "materialize" =>
        LET writers == SelectSeq(AfterIn(ListOf(pre, op[2]), op[2]), LAMBDA x : x \in Behaviors)
        IN  /\ called = writers
            /\ \A b \in Range(writers) : Count(called, b) = 1
            /\ (writers # <<>>) => out = PullValue(writers[Len(writers)])
            /\ ~failed

\* Two Pullables writing different values were linked to the Puller, and the
\* value of the second one was observed.
C21_Witness ==
    /\ op[1] = "materialize"
    /\ Len(called) >= 2
    /\ out = PullValue(called[Len(called)])
    /\ out # PullValue(called[1])

\* The value of the last push into the latch, or the default value if
\* nothing was pushed yet.
LastPushed == IF latch.pushed = <<>> THEN DefaultValue ELSE latch.pushed[1]

\* C22 (as the code has it): each pull yields the most recently pushed value
\* converted to T_val and then to Out_type (the default value if nothing was
\* pushed yet), which is the pushed value itself whenever T_val and Out_type
\* can hold it, as when the three types are the same; a pull never changes
\* the stored value.
C22_PullYieldsStoredValue ==
    op[1] = "latch_pull" =>
        /\ out = static_cast(latch.Out_type, static_cast(latch.T_val, LastPushed))
        /\ (LastPushed \in TypeValues(latch.T_val) \cap TypeValues(latch.Out_type)) =>
               out = LastPushed
        /\ (latch.In_type = latch.T_val /\ latch.T_val = latch.Out_type) => out = LastPushed
        /\ latch.value = latch.was

\* C22 (as stated): each pull yields the most recently pushed value, for
\* every Latch.
C22_PullYieldsPushedValue ==
    op[1] = "latch_pull" => (out = LastPushed /\ latch.value = latch.was)

\* A non-default value was pushed into a Latch of one type, and pulled.
C22_Witness ==
    /\ op[1] = "latch_pull"
    /\ latch.pushed # <<>>
    /\ latch.In_type = latch.T_val /\ latch.T_val = latch.Out_type
    /\ out # DefaultValue
    /\ out = latch.pushed[1]

\* C23: Lift::trigger makes two steps, each under its own guard: the pull
\* into the stored value happens exactly if in is linked, the push of the
\* stored value exactly if out is linked, whatever the other side is; with
\* neither side linked the trigger changes nothing.
C23_LiftStepsGuarded ==
    op[1] = "lift_trigger" =>
        /\ lift.pulled <=> port_bool(Links, lift_in)
        /\ (lift.pushed # <<>>) <=> port_bool(Links, lift_out)
        /\ lift.pulled =>
               lift.value = static_cast(lift.T_val, pull(fire(Links, lift_in), lift.was))
        /\ ~lift.pulled => lift.value = lift.was
        /\ (lift.pushed # <<>>) => lift.pushed = <<static_cast(lift.Out_type, lift.value)>>
        /\ called = SelectSeq(
               (IF port_bool(Links, lift_in) THEN AfterIn(ListOf(Links, lift_in), lift_in) ELSE <<>>)
               \o (IF port_bool(Links, lift_out) THEN AfterIn(ListOf(Links, lift_out), lift_out) ELSE <<>>),
               LAMBDA x : x \in Behaviors)
        /\ (~port_bool(Links, lift_in) /\ ~port_bool(Links, lift_out)) =>
               (lift.value = lift.was /\ trig = <<>> /\ called = <<>>)

\* The trigger pulled a new value with out unlinked.
C23_Witness ==
    /\ op[1] = "lift_trigger"
    /\ port_bool(Links, lift_in) /\ ~port_bool(Links, lift_out)
    /\ lift.pulled /\ lift.pushed = <<>>
    /\ lift.value # lift.was

\* C25: firing cannot be interrupted: every node that followed the firing
\* Event when the firing began has been triggered when the firing returns,
\* also when a triggered callable took the firing Event or a node not yet
\* visited out of the topic during the pass.
C25_EntryFollowersAllTriggered ==
    op[1] = "fire_return" =>
        Range(AfterIn(ListOf(pre, op[2]), op[2])) \subseteq Range(trig)

\* C26: when a firing reaches a chained Event, the nodes linked after the
\* chained Event are triggered after it, each exactly once and in list order:
\* they are the nodes a firing of the chained Event itself would trigger. The
\* trigger() of the chained Event calls no trigger() itself; the one walk of
\* the firing Event goes on past it.
C26_WalkContinuesPastChainedEvent ==
    op[1] = "fire" =>
        \A c \in Events \cap Range(trig) :
            /\ AfterIn(trig, c) = fire(pre, c)
            /\ trigger(pre, c) = <<>>
            /\ \A x \in Range(trig) : Count(trig, x) = 1

\* C26 as stated: the trigger() of a chained Event that a firing reaches
\* broadcasts to the nodes linked after it, as a firing of that Event does.
C26_ChainedEventBroadcastsFurther ==
    op[1] = "fire" =>
        \A c \in Events \cap Range(trig) : trigger(pre, c) = fire(pre, c)

\* A firing reached a chained Event that has a Behavior linked after it.
C26_Witness ==
    /\ op[1] = "fire"
    /\ \E c \in Events \cap Range(trig) :
        \E b \in Behaviors : b \in Range(AfterIn(trig, c))

\* The calls of the kind k on the buffer of the holder h in the last operation.
LifeEventsAt(k, h) == {i \in DOMAIN flog : flog[i].kind = k /\ flog[i].at = h}

\* C27: every target object constructed in the buffer of a holder has its
\* destructor run exactly once. Not zero times: a target is constructed or
\* move-constructed only in a buffer that holds no object whose destructor is
\* still to run, and when a holder is destroyed the object its buffer held
\* has had its destructor run. Not twice: a destructor runs on a buffer that
\* holds an object, and one operation runs it once per buffer at most.
C27_EveryTargetDestroyedOnce ==
    /\ \A i \in DOMAIN flog :
          /\ flog[i].kind \in {"ctor", "move"} => flog[i].over = NoObj
          /\ flog[i].kind = "dtor" => flog[i].obj # NoObj
    /\ \A h \in Holder : Cardinality(LifeEventsAt("dtor", h)) <= 1
    /\ \A h \in Holder :
          (op = <<"fn_destroy", h>> /\ fpre[h].obj # NoObj) =>
              LifeEventsAt("dtor", h) # {}

\* The slots of the array a that are active.
ActiveSlots(a) == {i \in Slots : a[i].is_active}

\* The arrays a and b are the same, but for the slots of the set S.
SameSlotsBut(a, b, S) == \A i \in Slots \ S : b[i] = a[i]

\* What an arm request with the given interval, pusher and periodic flag,
\* made at the time ms, turns the array a into: the array b and the error.
ArmRequestOutcome(a, b, error, ms, interval, pusher, periodic) ==
    IF pusher = NULL
    THEN error = "NULL_TARGET_PUSHER" /\ SameSlotsBut(a, b, {})
    ELSE IF interval = 0
    THEN error = "INVALID_INTERVAL" /\ SameSlotsBut(a, b, {})
    ELSE IF ActiveSlots(a) = Slots
    THEN error = "NO_FREE_SLOTS" /\ SameSlotsBut(a, b, {})
    ELSE \E i \in Slots \ ActiveSlots(a) :
            /\ \A j \in Slots \ ActiveSlots(a) : i <= j
            /\ b[i].is_active
            /\ b[i].on_expired_pusher = pusher
            /\ b[i].is_periodic = periodic
            /\ b[i].target_millis = (ms + interval) % (2^ClockBits)
            /\ b[i].period_ms = (IF periodic THEN interval ELSE 0)
            /\ SameSlotsBut(a, b, {i})
            /\ error = "NONE"

\* C28: an arm request with a null target pusher sets last_error to
\* NULL_TARGET_PUSHER; otherwise one with interval 0 sets INVALID_INTERVAL;
\* otherwise one arriving when all slots are active sets NO_FREE_SLOTS; in
\* these cases no slot changes. Otherwise exactly the lowest-index inactive
\* slot becomes active with the requested pusher, the requested interval (its
\* target time is the current time plus the interval, its period is the
\* interval if it is periodic) and the requested periodic flag, every other
\* slot is unchanged, and last_error is NONE.
C28_ArmRequest ==
    op[1] = "arm" =>
        ArmRequestOutcome(tpre, timer.active_timeouts, timer.last_error, millis,
                          op[3], op[2], op[4])

\* An arm request took the middle slot, the lowest inactive one, while the
\* first and the last slot were active for the other pusher.
C28_Witness ==
    /\ op[1] = "arm"
    /\ timer.last_error = "NONE"
    /\ \E i \in Slots :
          /\ i - 1 \in Slots /\ i + 1 \in Slots
          /\ timer.active_timeouts[i].is_active
          /\ timer.active_timeouts[i].on_expired_pusher = op[2]
          /\ timer.active_timeouts[i].target_millis = uint32_t(millis + 1)
          /\ \A j \in Slots \ {i} :
                /\ timer.active_timeouts[j].is_active
                /\ timer.active_timeouts[j].on_expired_pusher # op[2]

\* What a disarm request for the given pusher turns the array a into: the
\* array b and the error.
DisarmRequestOutcome(a, b, error, pusher) ==
    LET hit == {i \in ActiveSlots(a) : a[i].on_expired_pusher = pusher}
    IN  IF pusher = NULL
        THEN error = "NULL_TARGET_PUSHER" /\ SameSlotsBut(a, b, {})
        ELSE IF hit = {}
        THEN error = "TARGET_PUSHER_NOT_FOUND" /\ SameSlotsBut(a, b, {})
        ELSE /\ \A i \in hit : b[i] = NoTimeout
             /\ SameSlotsBut(a, b, hit)
             /\ error = "NONE"

\* C29: a disarm request clears every active slot whose pusher equals the
\* target pusher of the request (the slot is inactive, all its fields are
\* reset), leaves all other slots unchanged and last_error NONE; if no active
\* slot matches, last_error becomes TARGET_PUSHER_NOT_FOUND and no slot
\* changes; a null target sets NULL_TARGET_PUSHER and changes no slot.
C29_DisarmRequest ==
    op[1] = "disarm" =>
        DisarmRequestOutcome(tpre, timer.active_timeouts, timer.last_error, op[2])

\* A disarm request cleared two slots and left a slot of the other pusher
\* active.
C29_Witness ==
    /\ op[1] = "disarm"
    /\ op[3] = 2
    /\ timer.last_error = "NONE"
    /\ \E i \in Slots :
          /\ timer.active_timeouts[i].is_active
          /\ timer.active_timeouts[i].on_expired_pusher # op[2]

\* The time ms has reached the target time: it is the target time or past
\* it by less than half the range of the counter.
Reached(ms, target) ==
    \E d \in 0..(2^(ClockBits - 1) - 1) : (target + d) % (2^ClockBits) = ms

\* The firings of the last update() for the slot i.
FiringsOf(i) == {k \in DOMAIN tlog : tlog[k].slot = i}

\* C30: in an update() call each active slot whose target time has been
\* reached fires its pusher exactly once if the pusher is non-null and
\* linked, and not at all otherwise; afterwards a one-shot slot is cleared,
\* while a periodic slot stays active with target_millis set to the current
\* time plus period_ms and is otherwise unchanged; a slot that is not active
\* or whose target time has not been reached neither fires nor changes.
C30_UpdateFiresExpiredSlots ==
    op[1] = "update" =>
        \A i \in Slots :
            LET t == tpre[i]
                u == timer.active_timeouts[i]
            IN  IF t.is_active /\ Reached(millis, t.target_millis)
                THEN /\ Cardinality(FiringsOf(i)) =
                            (IF t.on_expired_pusher # NULL /\ linked(Links, t.on_expired_pusher)
                             THEN 1 ELSE 0)
                     /\ \A k \in FiringsOf(i) : tlog[k].pusher = t.on_expired_pusher
                     /\ IF t.is_periodic
                        THEN /\ u.is_active
                             /\ u = [t EXCEPT !.target_millis =
                                                  (millis + t.period_ms) % (2^ClockBits)]
                        ELSE ~u.is_active /\ u = NoTimeout
                ELSE FiringsOf(i) = {} /\ u = t

\* An update() fired a periodic slot that was past its target time and a
\* one-shot slot, passed over an expired slot whose pusher has no
\* subscriber, or left a slot alone whose target time was not reached.
C30_Witness ==
    /\ op[1] = "update"
    /\ \E k \in DOMAIN tlog :
          /\ tlog[k].at_fire.is_periodic
          /\ tlog[k].at_fire.target_millis # millis
    /\ \E k \in DOMAIN tlog : ~tlog[k].at_fire.is_periodic
    /\ \E i \in Slots :
          \/ /\ tpre[i].is_active /\ Reached(millis, tpre[i].target_millis)
             /\ FiringsOf(i) = {}
          \/ /\ tpre[i].is_active /\ ~Reached(millis, tpre[i].target_millis)
             /\ timer.active_timeouts[i] = tpre[i]

\* C24: the actor follows the discipline of updating its state before it
\* fires its outputs: at the moment update() fires the expiry pusher of a
\* slot, the slot is already in the state it has when update() returns.
C24_StateAtFireIsStateAtReturn ==
    \A k \in DOMAIN tlog : tlog[k].at_fire = timer.active_timeouts[tlog[k].slot]

\* C31: the expiry test reports a slot as expired exactly when at least
\* interval_ms milliseconds have elapsed since it was armed, whatever the
\* counter was at arming and also when it wrapped around since, for every
\* interval below half the range of the counter and every poll less than
\* half the range after the target time.
C31_ExpiredIffIntervalElapsed ==
    op[1] = "polled" => (op[6] <=> op[4] >= op[2])

\* The counter wrapped around between arming and a poll that reports the
\* slot expired; the target time itself lies past the wrap.
C31_Witness ==
    /\ op[1] = "polled"
    /\ millis < op[5]
    /\ op[6]
    /\ op[4] > op[2]
    /\ op[3] < op[5]

\* The requests made from inside callables during the last update() that no
\* later request of that update() undoes: an arm that succeeded and whose
\* pusher was not disarmed afterwards.
StandingArms ==
    {k \in DOMAIN tlog :
        /\ tlog[k].kind = "arm" /\ tlog[k].error = "NONE"
        /\ \A j \in DOMAIN tlog :
              (j > k /\ tlog[j].kind = "disarm") => tlog[j].pusher # tlog[k].pusher}

\* The disarms a callable made of the pusher that triggered it and that no
\* later arm request for that pusher follows.
StandingOwnDisarms ==
    {k \in DOMAIN tlog :
        /\ tlog[k].kind = "disarm"
        /\ \E f \in DOMAIN tlog :
              /\ f < k /\ tlog[f].kind = "fire" /\ tlog[f].pusher = tlog[k].pusher
              /\ \A j \in DOMAIN tlog : (f < j /\ j < k) => tlog[j].kind # "fire"
        /\ \A j \in DOMAIN tlog :
              (j > k /\ tlog[j].kind = "arm") => tlog[j].pusher # tlog[k].pusher}

C32_RequestsOutsideFiringSlotHonoured ==
    (pc = "idle" /\ op[1] = "updated") =>
        /\ \A k \in StandingArms :
              (\/ tlog[k].is_periodic
               \/ \A f \in DOMAIN tlog :
                     (f < k /\ tlog[f].kind = "fire") => tlog[f].slot # tlog[k].slot) =>
              LET t == timer.active_timeouts[tlog[k].slot]
              IN  /\ t.is_active
                  /\ t.on_expired_pusher = tlog[k].pusher
                  /\ t.is_periodic = tlog[k].is_periodic
                  /\ t.period_ms = (IF tlog[k].is_periodic THEN tlog[k].interval_ms ELSE 0)
                  /\ t.target_millis = uint32_t(millis + tlog[k].interval_ms)
        /\ \A k \in StandingOwnDisarms : matching(timer, tlog[k].pusher) = {}

\* C35: the output pin of an LED is HIGH exactly when its state machine is
\* in led_on; in stopped and in led_off it is LOW.
C35_PinHighIffLedOn ==
    \A i \in Leds : (led[i].pin = "HIGH") <=> (led[i].state = "led_on")

\* The active slots of the array a whose pusher is that of the LED i.
SlotsOfLed(a, i) ==
    {s \in Slots : a[s].is_active /\ a[s].on_expired_pusher = RelayOf(i)}

\* C33: with the three LEDs wired to the one TimerActor of three slots,
\* under any sequence of start, stop and interval commands interleaved with
\* updates, each arm request of an LED arms exactly one slot (right after
\* the request one slot is active for the LED, set up for now plus its
\* interval, and the actor reports no error; the active slots are as many
\* as the blinking LEDs), each LED owns at most one active slot, and no arm
\* request fails with NO_FREE_SLOTS.
C33_OneSlotPerLedNeverFull ==
    /\ \A i \in Leds : Cardinality(SlotsOfLed(timer.active_timeouts, i)) <= 1
    /\ timer.last_error # "NO_FREE_SLOTS"
    /\ Cardinality(ActiveSlots(timer.active_timeouts))
          = Cardinality({i \in Leds : led[i].state # "stopped"})
    /\ \A i \in Leds :
          op = <<"loop", "armed", i>> =>
              /\ timer.last_error = "NONE"
              /\ \E s \in Slots :
                    /\ SlotsOfLed(timer.active_timeouts, i) = {s}
                    /\ timer.active_timeouts[s].target_millis
                         = uint32_t(millis + led[i].blink_interval_ms)

\* All three slots are taken, one by each LED, right after an interval
\* command has disarmed and re-armed the timer of a blinking LED.
C33_Witness ==
    /\ op = <<"loop", "armed", 3>>
    /\ led[3].blink_interval_ms = MaxIntervalMs
    /\ \A s \in Slots : timer.active_timeouts[s].is_active
    /\ \A i \in Leds : Cardinality(SlotsOfLed(timer.active_timeouts, i)) = 1
    /\ timer.last_error = "NONE"

\* C34: for each LED with a blink interval above 0: while its state machine
\* is in led_off or led_on exactly one slot is active for its timeout
\* pusher, the slot is periodic and its period_ms is the current
\* blink_interval_ms of the LED; while it is in stopped no slot is active
\* for it.
C34_BlinkingIffOnePeriodicSlot ==
    \A i \in Leds :
        led[i].blink_interval_ms > 0 =>
            IF led[i].state \in {"led_off", "led_on"}
            THEN \E s \in Slots :
                    /\ SlotsOfLed(timer.active_timeouts, i) = {s}
                    /\ timer.active_timeouts[s].is_periodic
                    /\ timer.active_timeouts[s].period_ms = led[i].blink_interval_ms
            ELSE SlotsOfLed(timer.active_timeouts, i) = {}

\* The second LED is lit and blinks with an interval other than the one it
\* was constructed with, right after the interval command that re-armed its
\* timer, while another LED is stopped.
C34_Witness ==
    /\ op = <<"loop", "armed", 2>>
    /\ led[2].state = "led_on"
    /\ led[2].blink_interval_ms # InitialIntervalMs(2)
    /\ \E s \in Slots :
          /\ SlotsOfLed(timer.active_timeouts, 2) = {s}
          /\ timer.active_timeouts[s].period_ms = led[2].blink_interval_ms
    /\ \E i \in Leds : led[i].state = "stopped"

\* An LED is lit, another is blinking and dark, and the third is stopped.
C35_Witness ==
    /\ \E i \in Leds : led[i].state = "led_on" /\ led[i].pin = "HIGH"
    /\ \E i \in Leds : led[i].state = "led_off" /\ led[i].pin = "LOW"
    /\ \E i \in Leds : led[i].state = "stopped" /\ led[i].pin = "LOW"

\* The LED i with its state and pin toggled, if it is blinking.
Toggled(l) ==
    CASE l.state = "led_off" -> [l EXCEPT !.state = "led_on", !.pin = "HIGH"]
      [] l.state = "led_on" -> [l EXCEPT !.state = "led_off", !.pin = "LOW"]
      [] OTHER -> l

\* C36: an event of type EV_TIMEOUT pushed into event_handler_in turns the
\* LED on and moves to led_on from led_off, turns it off and moves to
\* led_off from led_on, and changes nothing in stopped; an event of another
\* type changes nothing; the expiry of a slot in update() is delivered to
\* the handler of the LED of that slot only: an LED toggles in update()
\* exactly if the target time of its slot is reached.
C36_TimeoutTogglesOnlyItsLed ==
    [][/\ \A i \in Leds, type \in AppEventTypes :
             BlinkyEvent(i, type) =>
                 /\ timer' = timer
                 /\ \A j \in Leds \ {i} : led'[j] = led[j]
                 /\ led'[i] = IF type = "EV_TIMEOUT" THEN Toggled(led[i]) ELSE led[i]
       /\ BlinkyUpdate =>
             \A i \in Leds :
                 led'[i] = IF \E s \in SlotsOfLed(timer.active_timeouts, i) :
                                  Reached(millis, timer.active_timeouts[s].target_millis)
                           THEN Toggled(led[i])
                           ELSE led[i]]_vars

\* An update() has just lit one LED whose slot had expired and left a dark
\* blinking LED alone whose slot had not: the periodic slot of the first
\* is restarted, that of the second is not yet due.
C36_Witness ==
    /\ op = <<"loop">>
    /\ \E i, j \in Leds :
          /\ i # j
          /\ led[i].state = "led_on" /\ led[j].state = "led_off"
          /\ led[i].blink_interval_ms = led[j].blink_interval_ms
          /\ \E s \in SlotsOfLed(timer.active_timeouts, i),
                r \in SlotsOfLed(timer.active_timeouts, j) :
                timer.active_timeouts[s].target_millis
                    # timer.active_timeouts[r].target_millis

\* The LED i is in one of the given states of its state machine.
LedIn(i, states) == led[i].state \in states

\* C37 as stated: while loop() keeps running and the clock advances, an
\* LED that is not stopped toggles for ever: led_off is followed by led_on
\* and led_on by led_off, unless the LED is stopped.
C37_BlinkingLedKeepsToggling ==
    \A i \in Leds :
        /\ LedIn(i, {"led_off"}) ~> LedIn(i, {"led_on", "stopped"})
        /\ LedIn(i, {"led_on"}) ~> LedIn(i, {"led_off", "stopped"})

\* C37, with the missing hypothesis: an LED whose timer is, from some point
\* on, no more armed by a command (no start, and no accepted interval
\* command while it blinks) toggles for ever unless it is stopped.
C37_TogglesOnceIntervalIsLeftAlone ==
    \A i \in Leds :
        <>[](op # <<"loop", "armed", i>>) =>
            /\ LedIn(i, {"led_off"}) ~> LedIn(i, {"led_on", "stopped"})
            /\ LedIn(i, {"led_on"}) ~> LedIn(i, {"led_off", "stopped"})

\* The clock has wrapped around since setup() and an update() has just left
\* the second LED lit, with the period it was constructed with and its slot
\* restarted for a later time.
C37_Witness ==
    /\ op = <<"loop">>
    /\ millis = 0
    /\ led[2].state = "led_on"
    /\ led[2].blink_interval_ms = InitialIntervalMs(2)
    /\ \E s \in SlotsOfLed(timer.active_timeouts, 2) :
          /\ timer.active_timeouts[s].is_periodic
          /\ ~Reached(millis, timer.active_timeouts[s].target_millis)

\* C38: pos stays at most MAX_CMD_LENGTH - 1, so the write of the
\* terminator at buffer[pos] and the copy of pos + 1 bytes stay inside the
\* buffer and inside command_line; a character other than a terminator that
\* arrives while pos is MAX_CMD_LENGTH - 1 is not stored: pos goes back to 0
\* and the characters collected so far are dropped.
C38_PosStaysInsideBuffer ==
    /\ collector.pos <= MAX_CMD_LENGTH - 1
    /\ collector.wrote \subseteq 0..(MAX_CMD_LENGTH - 1)
    /\ collector.copied <= MAX_CMD_LENGTH
    /\ collector.copied <= COMMAND_LINE_SIZE
    /\ (op[1] = "char_in" /\ op[2] \notin Terminators) =>
          IF op[3] = MAX_CMD_LENGTH - 1
          THEN /\ collector.pos = 0
               /\ collector.wrote = {}
               /\ collector.typed = <<>>
               /\ collector.fired = <<>>
          ELSE /\ collector.pos = op[3] + 1
               /\ collector.wrote = {op[3]}
               /\ collector.buffer[op[3]] = op[2]

\* A letter has just arrived with the buffer full of letters: it is
\* dropped together with them.
C38_Witness ==
    /\ op[1] = "char_in"
    /\ op[2] \notin Terminators
    /\ op[3] = MAX_CMD_LENGTH - 1
    /\ Len(op[4]) = MAX_CMD_LENGTH - 1
    /\ collector.pos = 0
    /\ \A k \in 0..(MAX_CMD_LENGTH - 2) : collector.buffer[k] \notin Terminators \cup {NUL}

\* C39: a terminator received with pos > 0 fires line_out exactly once,
\* with the characters received since pos was last 0, followed by NUL, and
\* with length equal to that pos, and leaves pos at 0; a terminator
\* received with pos = 0 fires nothing, and neither does another character.
C39_OneLinePerNonEmptyLine ==
    op[1] = "char_in" =>
        IF op[2] \in Terminators /\ op[3] > 0
        THEN /\ Len(collector.fired) = 1
             /\ collector.fired[1].length = op[3]
             /\ collector.fired[1].length = Len(op[4])
             /\ collector.fired[1].command_line = op[4] \o <<NUL>>
             /\ collector.pos = 0
        ELSE /\ collector.fired = <<>>
             /\ op[2] \in Terminators => collector.pos = 0

\* A terminator has just arrived after a line of the greatest length: the
\* line is fired once, with all its characters, and pos is back at 0.
C39_Witness ==
    /\ op[1] = "char_in"
    /\ op[2] \in Terminators
    /\ op[3] = MAX_CMD_LENGTH - 1
    /\ Len(collector.fired) = 1
    /\ collector.fired[1].length = MAX_CMD_LENGTH - 1
    /\ \A k \in 1..(MAX_CMD_LENGTH - 1) :
          collector.fired[1].command_line[k] \in Chars \ Terminators
    /\ collector.pos = 0

\* The Finalizers that own the action a: act_ would invoke it.
Owners(a) == {h \in Holder : held(fin, h) = a}

\* C40: every action of the user that was given to a Finalizer is, at any
\* moment, either owned by exactly one Finalizer and not yet run, or was
\* disarmed and never ran, or ran exactly once and is owned by nobody; it
\* runs when its owner is destroyed or is move-assigned over, and in no
\* other operation: these two invoke what the Finalizer owned before, which
\* for a moved-from or disarmed Finalizer is the lambda that does nothing.
C40_ActionRunsExactlyOnce ==
    /\ \A a \in UserActions :
          Cardinality(Owners(a)) + fin.ran[a] + (IF a \in fin.disarmed THEN 1 ELSE 0)
              = IF a \in fin.made THEN 1 ELSE 0
    /\ \A h \in Holder : fin.act_[h].alive => held(fin, h) \in UserActions \cup {NoOp}
    /\ op[1] \in {"fin_default", "fin_ctor", "fin_move_ctor", "fin_disarm"} =>
          fin.called = <<>>
    /\ op[1] = "fin_dtor" => fin.called = <<op[4]>> /\ ~fin.act_[op[2]].alive
    /\ op[1] = "fin_move_assign" =>
          fin.called = IF op[2] = op[3] THEN <<>> ELSE <<op[4]>>
    /\ op[1] \in {"fin_move_ctor", "fin_move_assign"} /\ op[2] # op[3] =>
          held(fin, op[3]) = NoOp

\* An action has just run because its owner was move-assigned over; the
\* other action has moved to that owner, and its former owner, left with the
\* lambda that does nothing, is still alive.
C40_Witness ==
    /\ op[1] = "fin_move_assign"
    /\ op[2] # op[3]
    /\ op[4] \in UserActions
    /\ fin.ran[op[4]] = 1
    /\ held(fin, op[2]) \in UserActions \ {op[4]}
    /\ held(fin, op[3]) = NoOp
    /\ fin.disarmed = {}

====
